---------------------------- MODULE Spec2Model ----------------------------
(***************************************************************************)
(* A model of the path tracer of Rust101 (src/path_tracing): the bounding  *)
(* volume hierarchy (bvh/bvh.rs, bvh/bounds.rs), the triangle primitive    *)
(* (mesh/triangle.rs), the scene's light sampling and radiance estimator   *)
(* (scene/scene.rs) and the threaded renderer (renderer/renderer.rs); and   *)
(* of the ray marchers (src/ray_marching, src/ray_marching_wgpu): the      *)
(* scene of ShapeOp chains, its distance function, the sphere tracing of   *)
(* a ray and cast_ray (sdf/mod.rs).                                        *)
(*                                                                         *)
(* Numbers.  The program computes in floating point; the model computes    *)
(* exactly.  Coordinates are integers, quotients are kept as fractions     *)
(* <<numerator, denominator>> and compared by cross multiplication.  The   *)
(* grid step of the model is 1 and the machine epsilon of the program is   *)
(* modelled as EPSILON grid steps, so that, as in f64, there are values    *)
(* strictly between 0 and EPSILON.                                         *)
(***************************************************************************)
EXTENDS Integers, Sequences, FiniteSets, TLC

VARIABLES
    primitives,     \* BVH.primitives: the objects the hierarchy is built over
    root,           \* BVH.root: NoNode until BVH::build has run
    bvhRay,         \* the ray of the last BVH::intersect call (NoRay: none yet)
    bvhInter,       \* the Intersection the last BVH::intersect call returned
    bvhSample,      \* what the last BVH::sample call returned (NoSample: none yet)
    models,         \* Scene.models: the models added, in order
    sceneBvh,       \* Scene.bvh: the top-level hierarchy, NoNode = None
    strategy,       \* Scene.estimator_strategy
    pc,             \* where the caller of Scene::cast_ray is
    depth,          \* the depth argument of the innermost Scene::shade call
    hit,            \* the hit argument of the innermost Scene::shade call
    light,          \* what the last Scene::sample_light call returned
    indirectPdf,    \* the indirect_pdf of the last Scene::shade call that had one
    program,        \* the renderer at work: "path_tracing" or "ray_marching"
    image,          \* Scene.width, Scene.height and Scene.sample_per_pixel
    fbo,            \* Renderer.fbo: the buffer of its render target, NoFbo = None
    renderPc,       \* where the caller of Renderer::render is
    gap,            \* render's gap: the rows of a band
    nextK,          \* render's k: the first row of the next band
    workers,        \* the threads spawned, in order: band, position, state
    channel,        \* the messages sent and not yet received, in order
    txOpen,         \* the sender tx of the main thread is not dropped
    applied,        \* per pixel, the messages the consumer has applied
    nThreads,       \* the n_threads argument of the render call under way
    tableLock,      \* the thread holding the mutex of TRIANGLE_TABLE, 0 = free
    box,            \* a Bounds3 value: self of the Bounds3 methods
    boxWas,         \* what box was before the last call of a Bounds3 method
    boxCall,        \* the last call of a Bounds3 method: its name and arguments
    boxAxis,        \* what the last max_extent_axis call returned (0: none yet)
    evaluator,      \* the ray marcher at work: "ray_marching" or "ray_marching_wgpu"
    sdfNodes,       \* Scene.nodes of the ray marcher: the ShapeOp nodes, in order
    sdfRoots,       \* Scene.root_nodes: the nodes added as roots, in order
    background,     \* Scene.background_color (camera_background_color in the path tracer)
    sdfCall,        \* the last call of Scene::sdf or shape_sdf, and its result
    march,          \* the call of Scene::ray_march under way, or its result
    cast,           \* the call of the ray marcher's Scene::cast_ray, or its result
    sdfGround,      \* Scene.ground_node of the ray marcher: a node, 0 = None
    sdfMaterials,   \* Scene.materials of src/ray_marching_wgpu, in order
    numCall,        \* the last call of a routine computed in floating point
    numResult       \* what that call returned

bvhVars == <<primitives, root, bvhRay, bvhInter, bvhSample>>

sceneVars == <<models, sceneBvh, strategy, pc, depth, hit, light, indirectPdf>>

renderVars ==
    <<program, image, fbo, renderPc, gap, nextK, workers, channel, txOpen,
      applied, nThreads, tableLock>>

boxVars == <<box, boxWas, boxCall, boxAxis>>

\* the variables outside each part of the model
sdfVars ==
    <<evaluator, sdfNodes, sdfRoots, background, sdfCall, march, cast,
      sdfGround, sdfMaterials>>

\* the ground node and the materials of a ray marcher's scene
arenaVars == <<sdfGround, sdfMaterials>>

numVars == <<numCall, numResult>>

notBvh == <<sceneVars, renderVars, boxVars, sdfVars, numVars>>
notScene == <<bvhVars, renderVars, boxVars, sdfVars, numVars>>
notRender == <<bvhVars, sceneVars, boxVars, sdfVars, numVars>>
notBox == <<bvhVars, sceneVars, renderVars, sdfVars, numVars>>
notSdf == <<bvhVars, sceneVars, renderVars, boxVars, numVars>>
notNum == <<bvhVars, sceneVars, renderVars, boxVars, sdfVars>>

vars == <<primitives, root, bvhRay, bvhInter, bvhSample,
          models, sceneBvh, strategy, pc, depth, hit, light, indirectPdf,
          program, image, fbo, renderPc, gap, nextK, workers, channel, txOpen,
          applied, nThreads, tableLock,
          box, boxWas, boxCall, boxAxis,
          evaluator, sdfNodes, sdfRoots, background, sdfCall, march, cast,
          sdfGround, sdfMaterials,
          numCall, numResult>>

-----------------------------------------------------------------------------
(* Bounds of the model *)

\* longest primitive list a hierarchy is built over
MaxPrims == 3

\* most models added to a scene
MaxModels == 3

\* largest width of an image
MaxWidth == 2

\* largest height of an image
MaxHeight == 3

\* largest sample_per_pixel
MaxSpp == 2

\* largest n_threads handed to Renderer::render
MaxThreads == 3

\* most samples of an image: width * height * sample_per_pixel
MaxSamples == 8

\* largest N of MaximumBounces(N)
MaxBounces == 2

\* The depth of Scene::shade is counted up to MaxDepth and stays there: a
\* depth of MaxDepth stands for every depth from MaxDepth on.  It is above
\* every N of MaximumBounces(N), and RussianRoulette does not read the depth.
MaxDepth == MaxBounces + 2

\* std::f64::EPSILON, in grid steps of the model
EPSILON == 2

-----------------------------------------------------------------------------
(* Exact arithmetic: fractions <<n, d>>.  <<1, 0>> is +infinity (the        *)
(* f32::MAX of a miss), <<0, 0>> is NaN (0 * infinity).                     *)

Abs(x) == IF x < 0 THEN -x ELSE x

\* the fraction with a non-negative denominator
RatNorm(q) == IF q[2] < 0 THEN <<-q[1], -q[2]>> ELSE q

RatLess(a, b) == a[1] * b[2] < b[1] * a[2]

RatLeq(a, b) == a[1] * b[2] <= b[1] * a[2]

\* equality of two numbers: NaN and infinity equal nothing
RatEq(a, b) == a[2] # 0 /\ b[2] # 0 /\ a[1] * b[2] = b[1] * a[2]

RatMax(a, b) == IF RatLess(a, b) THEN b ELSE a

RatMin(a, b) == IF RatLess(b, a) THEN b ELSE a

RatMul(a, b) == <<a[1] * b[1], a[2] * b[2]>>

\* the integer square root of a perfect square
ISqrt(n) == CHOOSE r \in 0..n : r * r = n

-----------------------------------------------------------------------------
(* math/vector.rs *)

VZero == <<0, 0, 0>>

VSub(a, b) == <<a[1] - b[1], a[2] - b[2], a[3] - b[3]>>

VMin(a, b) ==
    << IF a[1] < b[1] THEN a[1] ELSE b[1],
       IF a[2] < b[2] THEN a[2] ELSE b[2],
       IF a[3] < b[3] THEN a[3] ELSE b[3] >>

VMax(a, b) ==
    << IF a[1] > b[1] THEN a[1] ELSE b[1],
       IF a[2] > b[2] THEN a[2] ELSE b[2],
       IF a[3] > b[3] THEN a[3] ELSE b[3] >>

Dot(a, b) == a[1] * b[1] + a[2] * b[2] + a[3] * b[3]

Cross(a, b) ==
    << a[2] * b[3] - a[3] * b[2],
       a[3] * b[1] - a[1] * b[3],
       a[1] * b[2] - a[2] * b[1] >>

\* Vector3f::length, for the vectors of the model, whose length is integral
Length(a) == ISqrt(Dot(a, a))

\* Vector3f::normalize: a vector of no length is returned as it is
Normalize(a) ==
    IF Dot(a, a) > 0
    THEN << a[1] \div Length(a), a[2] \div Length(a), a[3] \div Length(a) >>
    ELSE a

-----------------------------------------------------------------------------
(* domain/domain.rs *)

\* Ray::new(origin, direction, 0.0)
Ray(o, d) == [origin |-> o, direction |-> d]

NoRay == [nil |-> TRUE]

\* Option::None of Intersection.obj, and of Intersection.material
NoObj == <<"N", 0>>

NoMat == 0

\* f32::MAX, the distance of a miss
MaxDistance == <<1, 0>>

\* Intersection::new(): the record of a miss
NewIntersection ==
    [hit |-> FALSE, distance |-> MaxDistance, obj |-> NoObj, material |-> NoMat]

-----------------------------------------------------------------------------
(* bvh/bounds.rs *)

\* Bounds3::zero
BoundsZero == [p_min |-> VZero, p_max |-> VZero]

\* Bounds3::from_points
FromPoints(p1, p2) == [p_min |-> VMin(p1, p2), p_max |-> VMax(p1, p2)]

\* union2 that forgets the second box
Union2KeepsFirst(a, b) == a

\* Bounds3::union2, and Bounds3::union with self = a
Union2(a, b) ==
    [p_min |-> VMin(a.p_min, b.p_min), p_max |-> VMax(a.p_max, b.p_max)]

\* Bounds3::union_point
UnionPoint(a, p) == [p_min |-> VMin(a.p_min, p), p_max |-> VMax(a.p_max, p)]

\* Bounds3::center: p_min * 0.5 + p_max * 0.5 (the model's coordinates are even)
Center(b) ==
    << (b.p_min[1] \div 2) + (b.p_max[1] \div 2),
       (b.p_min[2] \div 2) + (b.p_max[2] \div 2),
       (b.p_min[3] \div 2) + (b.p_max[3] \div 2) >>

\* Bounds3::diagonal
Diagonal(b) == VSub(b.p_max, b.p_min)

\* Bounds3::max_extent_axis: 1 = Axis::X, 2 = Axis::Y, 3 = Axis::Z
MaxExtentAxis(b) ==
    LET d == Diagonal(b)
    IN  IF d[1] > d[2] /\ d[1] > d[3] THEN 1
        ELSE IF d[2] > d[3] THEN 2
        ELSE 3

\* Bounds3::intersect, the slab test.  inv_dir is 1 / (direction + EPSILON);
\* the rays of the model have no component equal to -EPSILON, so that no
\* quotient is a division by zero.
BoundsIntersect(b, ray) ==
    LET o == ray.origin
        d == ray.direction
        is_dir_neg == [i \in 1..3 |-> d[i] >= 0]
        t_min == [i \in 1..3 |-> RatNorm(<<b.p_min[i] - o[i], d[i] + EPSILON>>)]
        t_max == [i \in 1..3 |-> RatNorm(<<b.p_max[i] - o[i], d[i] + EPSILON>>)]
        t_enter3 == [i \in 1..3 |-> IF is_dir_neg[i] THEN t_min[i] ELSE t_max[i]]
        t_exit3 == [i \in 1..3 |-> IF ~is_dir_neg[i] THEN t_min[i] ELSE t_max[i]]
        t_enter == RatMax(t_enter3[1], RatMax(t_enter3[2], t_enter3[3]))
        t_exit == RatMin(t_exit3[1], RatMin(t_exit3[2], t_exit3[3]))
    IN  RatLeq(t_enter, t_exit) /\ RatLeq(<<0, 1>>, t_exit)

-----------------------------------------------------------------------------
(* material/material.rs *)

\* The materials of the model, LitMaterial { emission, albedo }: 1 is a white
\* diffuse surface, 2 a light, 3 a red diffuse surface.
MaterialEmission(m) == IF m = 2 THEN <<8, 4, 8>> ELSE VZero

\* LitMaterial::has_emission
HasEmission(m) == Length(MaterialEmission(m)) > EPSILON

-----------------------------------------------------------------------------
(* mesh/triangle.rs *)

\* The triangles of the model: their vertices in source order.  Triangles 1, 2, 3, 5 and 6 face -z
\* and lie at different depths, 4 is degenerate (collinear vertices), 7 faces
\* +z.
TriVertices(i) ==
    CASE i = 1 -> << <<0, 0, 4>>,   <<0, 4, 4>>,   <<4, 0, 4>> >>
      [] i = 2 -> << <<4, 0, 6>>,   <<4, 4, 6>>,   <<8, 0, 6>> >>
      [] i = 3 -> << <<0, 0, 8>>,   <<0, 8, 8>>,   <<8, 0, 8>> >>
      [] i = 4 -> << <<0, 0, 2>>,   <<2, 0, 2>>,   <<4, 0, 2>> >>
      [] i = 5 -> << <<-8, -4, 10>>, <<-8, 0, 10>>, <<-6, -4, 10>> >>
      [] i = 6 -> << <<0, 4, 12>>,  <<0, 8, 12>>,  <<2, 4, 12>> >>
      [] OTHER -> << <<0, 0, 14>>,  <<4, 0, 14>>,  <<0, 4, 14>> >>

TriIds == 1..7

\* The models of the model (mesh/model.rs), each an OBJ mesh with one
\* material: 1 is a white surface (with a degenerate triangle), 2 and 3 are
\* lights of different area, 4 is a red surface.
ModelIds == 1..4

ModelTris(j) ==
    CASE j = 1 -> <<1, 3, 4>>
      [] j = 2 -> <<2>>
      [] j = 3 -> <<6>>
      [] OTHER -> <<5, 7>>

ModelMaterial(j) == IF j \in {2, 3} THEN 2 ELSE IF j = 4 THEN 3 ELSE 1

\* Model::load hands its own material to every triangle it creates
TriMaterial(i) ==
    ModelMaterial(CHOOSE j \in ModelIds :
                      \E k \in 1..Len(ModelTris(j)) : ModelTris(j)[k] = i)

\* the fields Triangle::new stores and derives from the edges e1 and e2
TriangleOf(v0, v1, v2, e1, e2, material) ==
    [v0 |-> v0, v1 |-> v1, v2 |-> v2, e1 |-> e1, e2 |-> e2,
     normal |-> Normalize(Cross(e1, e2)),
     area |-> Length(Cross(e1, e2)) \div 2,
     material |-> material]

\* Triangle::new: e1 = v1 - v0, e2 = v2 - v0
TriangleNew(v0, v1, v2, material) ==
    TriangleOf(v0, v1, v2, VSub(v1, v0), VSub(v2, v0), material)

\* the triangles of the meshes, as Model::load makes them
Triangles ==
    [i \in TriIds |->
        TriangleNew(TriVertices(i)[1], TriVertices(i)[2], TriVertices(i)[3],
                    TriMaterial(i))]

\* triangle i of the model
Triangle(i) == Triangles[i]

\* Triangle::get_bounds of a triangle
TriBounds(tri) == UnionPoint(FromPoints(tri.v0, tri.v1), tri.v2)

TriGetBounds(i) == TriBounds(Triangle(i))

\* Triangle::get_area
TriGetArea(i) == Triangle(i).area

\* Triangle::intersect (Moeller-Trumbore) of triangle tri, which is triangle i
TriangleIntersect(tri, i, ray) ==
    LET pvec == Cross(ray.direction, tri.e2)
        det == Dot(tri.e1, pvec)
        tvec == VSub(ray.origin, tri.v0)
        u == RatNorm(<<Dot(tvec, pvec), det>>)
        qvec == Cross(tvec, tri.e1)
        v == RatNorm(<<Dot(ray.direction, qvec), det>>)
        t == RatNorm(<<Dot(tri.e2, qvec), det>>)
    IN  IF Dot(ray.direction, tri.normal) > 0 THEN NewIntersection
        ELSE IF Abs(det) < EPSILON THEN NewIntersection
        ELSE IF u[1] < 0 \/ u[1] > u[2] THEN NewIntersection
        ELSE IF v[1] < 0 \/ u[1] + v[1] > u[2] THEN NewIntersection
        ELSE IF t[1] > 0
             THEN [hit |-> TRUE, distance |-> t, obj |-> <<"T", i>>,
                   material |-> tri.material]
             ELSE NewIntersection

TriIntersect(i, ray) == TriangleIntersect(Triangle(i), i, ray)

\* Triangle::sample: the pdf it returns, 1.0 / self.area
TriSamplePdf(i) == <<1, Triangle(i).area>>

-----------------------------------------------------------------------------
(* mesh/model.rs and mesh/object.rs.  An object is <<"T", i>>, triangle i,   *)
(* or <<"M", j>>, model j; a hierarchy is built over objects of either kind. *)

RECURSIVE SumAreas(_)
\* the sum Model::load accumulates over its triangles
SumAreas(tris) ==
    IF tris = <<>> THEN 0 ELSE TriGetArea(Head(tris)) + SumAreas(Tail(tris))

\* Model.area as Model::load sets it
ModelArea == [j \in ModelIds |-> SumAreas(ModelTris(j))]

\* Model::get_area: self.area
ModelGetArea(j) == ModelArea[j]

\* the vertices of a triangle
TriPoints(tri) == {tri.v0, tri.v1, tri.v2}

\* the vertices of the mesh of model j
ModelVertices(j) ==
    UNION {TriPoints(Triangle(ModelTris(j)[k])) : k \in DOMAIN ModelTris(j)}

MinCoord(pts, i) == CHOOSE x \in {p[i] : p \in pts} : \A p \in pts : x <= p[i]

MaxCoord(pts, i) == CHOOSE x \in {p[i] : p \in pts} : \A p \in pts : x >= p[i]

\* the box Model::load computes: the componentwise minimum and maximum of
\* the vertices
BoxOfPoints(pts) ==
    [p_min |-> <<MinCoord(pts, 1), MinCoord(pts, 2), MinCoord(pts, 3)>>,
     p_max |-> <<MaxCoord(pts, 1), MaxCoord(pts, 2), MaxCoord(pts, 3)>>]

\* Model.bounds as Model::load sets it
ModelBounds == [j \in ModelIds |-> BoxOfPoints(ModelVertices(j))]

\* Model::get_bounds: self.bounds
ModelGetBounds(j) == ModelBounds[j]

\* Object::get_bounds
GetBounds(obj) ==
    IF obj[1] = "T" THEN TriGetBounds(obj[2]) ELSE ModelGetBounds(obj[2])

\* Object::get_area
GetArea(obj) ==
    IF obj[1] = "T" THEN TriGetArea(obj[2]) ELSE ModelGetArea(obj[2])

\* the primitives Model::load hands to BVH::new
ModelPrimitives(j) == [k \in 1..Len(ModelTris(j)) |-> <<"T", ModelTris(j)[k]>>]

-----------------------------------------------------------------------------
(* bvh/bvh.rs *)

\* Option::None of a node
NoNode == [nil |-> TRUE]

IsNone(node) == "nil" \in DOMAIN node

\* BVHNode::new() with the fields build_recursively assigns
BVHNode(bounds, left, right, object, area) ==
    [bounds |-> bounds, left |-> left, right |-> right, object |-> object,
     area |-> area]

RECURSIVE UnionAll(_, _)
\* the loop "for primitive in primitives.iter() { b.union(&primitive.get_bounds()) }"
UnionAll(b, prims) ==
    IF prims = <<>> THEN b
    ELSE UnionAll(Union2(b, GetBounds(Head(prims))), Tail(prims))

\* the key the closure of sort_by compares: the center along the axis
SortKey(obj, axis) == Center(GetBounds(obj))[axis]

\* a sort that turns the elements of equal key around
ReversingSort(prims, key) ==
    [r \in 1..Len(prims) |->
        prims[CHOOSE k \in 1..Len(prims) :
                  Cardinality({j \in 1..Len(prims) :
                                  \/ key[j] < key[k]
                                  \/ key[j] = key[k] /\ j > k}) + 1 = r]]

\* A stable sort of prims by the keys key[1], key[2], ..: an element moves
\* behind those of smaller key and behind those of equal key that precede it.
StableSort(prims, key) ==
    [r \in 1..Len(prims) |->
        prims[CHOOSE k \in 1..Len(prims) :
                  Cardinality({j \in 1..Len(prims) :
                                  \/ key[j] < key[k]
                                  \/ key[j] = key[k] /\ j < k}) + 1 = r]]

\* primitives.sort_by(..): a stable sort by the center along the axis
SortBy(prims, axis) ==
    StableSort(prims, [k \in 1..Len(prims) |-> SortKey(prims[k], axis)])

\* build_recursively for one primitive: a leaf
LeafNode(obj) == BVHNode(GetBounds(obj), NoNode, NoNode, obj, GetArea(obj))

\* build_recursively above two built children: their union and their sum
InnerNode(left, right) ==
    BVHNode(Union2(left.bounds, right.bounds), left, right, NoObj,
            left.area + right.area)

RECURSIVE BuildRecursively(_)
\* build_recursively for three or more primitives, sorted: split at the
\* middle index
SplitSorted(sorted) ==
    InnerNode(BuildRecursively(SubSeq(sorted, 1, Len(sorted) \div 2)),
              BuildRecursively(SubSeq(sorted, Len(sorted) \div 2 + 1,
                                      Len(sorted))))

\* BVH::build_recursively, for a list that is not empty
BuildRecursively(prims) ==
    IF Len(prims) = 1 THEN LeafNode(prims[1])
    ELSE IF Len(prims) = 2
    THEN InnerNode(BuildRecursively(<<prims[1]>>), BuildRecursively(<<prims[2]>>))
    ELSE SplitSorted(SortBy(prims, MaxExtentAxis(UnionAll(BoundsZero, prims))))

\* the lists build_recursively(prims) calls itself with: none for one
\* primitive, the two primitives one by one for two, and for every other
\* length, zero too, the two parts of the sorted list on either side of
\* "middle_index = primitives.len() / 2"
Callees(prims) ==
    IF Len(prims) = 1 THEN {}
    ELSE IF Len(prims) = 2 THEN {<<prims[1]>>, <<prims[2]>>}
    ELSE {SubSeq(SortBy(prims, MaxExtentAxis(UnionAll(BoundsZero, prims))),
                 1, Len(prims) \div 2),
          SubSeq(SortBy(prims, MaxExtentAxis(UnionAll(BoundsZero, prims))),
                 Len(prims) \div 2 + 1, Len(prims))}

\* build_recursively(prims) calls itself with the list it was called with,
\* and so does every call below it: the call does not return
CallsItself(prims) == prims \in Callees(prims)

\* the closer of two hits: "if left.distance < right.distance { left } else
\* { right }"
Closer(left, right) ==
    IF RatLess(left.distance, right.distance) THEN left ELSE right

\* Model.bvh as Model::load sets it: the root of the hierarchy built over the
\* triangles of the model
ModelBvh == [j \in ModelIds |-> BuildRecursively(ModelPrimitives(j))]

RECURSIVE IntersectInternal(_, _)
RECURSIVE ObjIntersect(_, _)
\* Object::intersect: Triangle::intersect, or Model::intersect, which asks the
\* hierarchy Model::load built over the model's triangles
ObjIntersect(obj, ray) ==
    IF obj[1] = "T" THEN TriIntersect(obj[2], ray)
    ELSE IntersectInternal(ModelBvh[obj[2]], ray)

\* BVH::intersect_internal
IntersectInternal(node, ray) ==
    IF IsNone(node) THEN NewIntersection
    ELSE IF ~BoundsIntersect(node.bounds, ray) THEN NewIntersection
    ELSE IF IsNone(node.left) /\ IsNone(node.right)
         THEN ObjIntersect(node.object, ray)
    ELSE Closer(IntersectInternal(node.left, ray),
                IntersectInternal(node.right, ray))

\* BVH::intersect
BVHIntersect(rootNode, ray) ==
    IF IsNone(rootNode) THEN NewIntersection
    ELSE IntersectInternal(rootNode, ray)

\* get_sample without "pdf *= node.area": the pdf of the primitive is not scaled by the
\* area of the leaf
LeafPdfUnscaled(pdf, node) == pdf

\* BVH::get_sample at a leaf: pdf *= node.area
LeafPdf(pdf, node) == RatMul(pdf, <<node.area, 1>>)

RECURSIVE GetSample(_, _, _)
RECURSIVE ObjSamplePdf(_, _)
RECURSIVE BVHSample(_, _)
\* Object::sample, the pdf it returns: Triangle::sample, or Model::sample,
\* which samples the hierarchy of the model (Model::load always builds it)
\* with the next random numbers
ObjSamplePdf(obj, draws) ==
    IF obj[1] = "T" THEN TriSamplePdf(obj[2])
    ELSE BVHSample(ModelBvh[obj[2]], draws).pdf

\* BVH::get_sample: the leaf the descent ends in and the pdf
GetSample(node, p, draws) ==
    IF IsNone(node.left) \/ IsNone(node.right)
    THEN [obj |-> node.object,
          pdf |-> LeafPdf(ObjSamplePdf(node.object, draws), node)]
    ELSE IF RatLess(p, <<node.left.area, 1>>)
         THEN GetSample(node.left, p, draws)
         ELSE GetSample(node.right, <<p[1] - node.left.area * p[2], p[2]>>, draws)

\* BVH::sample on a built hierarchy.  draws[1] is the number
\* sample_uniform_distribution(0.0, 1.0) returns here, a fraction of two
\* perfect squares, the rest are the numbers the primitives draw.
BVHSample(rootNode, draws) ==
    LET u == draws[1]
        p == <<ISqrt(u[1]) * rootNode.area, ISqrt(u[2])>>
        s == GetSample(rootNode, p, Tail(draws))
    IN  [obj |-> s.obj, pdf |-> RatMul(s.pdf, <<1, rootNode.area>>)]

-----------------------------------------------------------------------------
(* The inputs of the model *)

\* sample_uniform_distribution(0.0, 1.0): numbers of [0, 1) with a rational
\* square root
Draws == {<<0, 16>>, <<1, 16>>, <<4, 16>>, <<9, 16>>}

\* The rays handed to BVH::intersect.  A direction component of -1 lies
\* strictly between -EPSILON and 0.
RayOrigins == {<<1, 1, 0>>, <<5, 1, 0>>, <<-7, -3, 0>>, <<1, 1, 16>>}

RayDirections == {<<0, 0, 4>>, <<-1, 0, 4>>, <<1, 0, 4>>, <<0, 0, -4>>}

Rays == {Ray(o, d) : o \in RayOrigins, d \in RayDirections}

RECURSIVE InjSeqs(_, _)
\* the sequences without repetition of at most n elements of S
InjSeqs(S, n) ==
    IF n = 0 THEN {<<>>}
    ELSE LET shorter == InjSeqs(S, n - 1)
         IN  shorter \cup
             {Append(pq[1], pq[2]) :
                 pq \in {qx \in shorter \X S :
                            /\ Len(qx[1]) = n - 1
                            /\ \A k \in 1..Len(qx[1]) : qx[1][k] # qx[2]}}

TriObjects == {<<"T", i>> : i \in TriIds}

ModelObjects == {<<"M", j>> : j \in ModelIds}

\* The primitive lists handed to BVH::new: the triangles of a mesh, or the
\* models of a scene
PrimitiveLists ==
    (InjSeqs(TriObjects, MaxPrims) \cup InjSeqs(ModelObjects, MaxPrims)) \ {<<>>}

NoSample == [nil |-> TRUE]

\* no pdf computed yet
NoPdf == <<0, 0>>

-----------------------------------------------------------------------------
(* The hierarchy as a state machine: BVH::new, then BVH::build, then any     *)
(* number of BVH::intersect and BVH::sample calls.                           *)

\* no hierarchy under test
BVHAtRest ==
    /\ primitives = <<>>
    /\ root = NoNode
    /\ bvhRay = NoRay
    /\ bvhInter = NewIntersection
    /\ bvhSample = NoSample

\* Scene::new, never used
SceneAtRest ==
    /\ models = <<>>
    /\ sceneBvh = NoNode
    /\ strategy = [kind |-> "MaximumBounces", max_depth |-> 1]
    /\ pc = "idle"
    /\ depth = 0
    /\ hit = NewIntersection
    /\ light = NoSample
    /\ indirectPdf = NoPdf

\* Renderer.fbo = None: no buffer, no rows
NoFbo == <<>>

\* Renderer::new, never used
RenderAtRest ==
    /\ program = "path_tracing"
    /\ image = [width |-> 1, height |-> 1, sample_per_pixel |-> 1]
    /\ fbo = NoFbo
    /\ renderPc = "idle"
    /\ gap = 0
    /\ nextK = 0
    /\ workers = <<>>
    /\ channel = <<>>
    /\ txOpen = FALSE
    /\ applied = <<>>
    /\ nThreads = 0
    /\ tableLock = 0

\* no Bounds3 method is called
NoCall == [op |-> "none", p |-> VZero, b |-> BoundsZero]

BoxAtRest ==
    /\ box = BoundsZero
    /\ boxWas = BoundsZero
    /\ boxCall = NoCall
    /\ boxAxis = 0

\* HitResult::new: "distance: f64::MAX"
F64Max == 1000000000

\* what a call on the ray marcher's scene returned: a distance and a root
\* (0 = None), or a panic
Returned(distance, shape_op) ==
    [panicked |-> FALSE, distance |-> distance, shape_op |-> shape_op]

Panicked == [panicked |-> TRUE, distance |-> 0, shape_op |-> 0]

\* HitResult::new()
NewHitResult == Returned(F64Max, 0)

\* a call of Scene::sdf or of shape_sdf on a node: its name, its arguments
\* and its result
SdfCalled(op, node, p, result) ==
    [op |-> op, node |-> node, p |-> p, result |-> result]

\* no call yet
NoSdfCall == SdfCalled("none", 0, VZero, NewHitResult)

\* Scene::ray_march(ray, max_dist) in its loop or after it: the direction of
\* the ray from the origin, the passes of the loop so far, dist, and what it
\* has returned
Marching(at, direction, max_dist, step, dist, result) ==
    [pc |-> at, direction |-> direction, max_dist |-> max_dist,
     step |-> step, dist |-> dist, result |-> result]

\* ray_march is not called
NoMarch == Marching("idle", VZero, 0, 0, 0, NewHitResult)

\* Scene::cast_ray of a ray marcher: where it is, whether its ray hit a
\* shape, and the colour it returned, a fraction
Casting(at, found, color) == [pc |-> at, found |-> found, color |-> color]

\* cast_ray is not called
NoCast == Casting("idle", FALSE, <<0, 1>>)

\* no scene of a ray marcher is set up
SdfIdle ==
    /\ evaluator = "ray_marching"
    /\ sdfNodes = <<>>
    /\ sdfRoots = <<>>
    /\ sdfMaterials = <<>>
    /\ sdfCall = NoSdfCall
    /\ march = NoMarch
    /\ cast = NoCast
    /\ sdfGround = 0

SdfAtRest ==
    /\ SdfIdle
    /\ background = 0

\* no routine called in floating point
NoNumCall == [op |-> "none"]

NumAtRest ==
    /\ numCall = NoNumCall
    /\ numResult = NoSample

InitBVH ==
    /\ primitives \in PrimitiveLists
    /\ root = NoNode
    /\ bvhRay = NoRay
    /\ bvhInter = NewIntersection
    /\ bvhSample = NoSample
    /\ SceneAtRest
    /\ RenderAtRest
    /\ BoxAtRest
    /\ NumAtRest
    /\ SdfAtRest

\* BVH::build
Build ==
    /\ IsNone(root)
    /\ root' = BuildRecursively(primitives)
    /\ bvhRay' = NoRay
    /\ bvhInter' = NewIntersection
    /\ bvhSample' = NoSample
    /\ UNCHANGED <<primitives, notBvh>>

\* No query changes the hierarchy, so a behaviour makes one query of the
\* hierarchy in the state it is in.
NoQueryYet == bvhRay = NoRay /\ bvhSample = NoSample

\* BVH::intersect(ray), built or not
Intersect ==
    \E ray \in Rays :
        /\ NoQueryYet
        /\ bvhRay' = ray
        /\ bvhInter' = BVHIntersect(root, ray)
        /\ UNCHANGED <<primitives, root, bvhSample, notBvh>>

\* BVH::sample(), which unwraps the root; a model among the primitives draws
\* random numbers of its own
Sample ==
    \E u1 \in Draws, u2 \in Draws :
        /\ NoQueryYet
        /\ ~IsNone(root)
        /\ bvhSample' = BVHSample(root, <<u1, u2>>)
        /\ UNCHANGED <<primitives, root, bvhRay, bvhInter, notBvh>>

NextBVH == Build \/ Intersect \/ Sample

SpecBVH == InitBVH /\ [][NextBVH]_vars

-----------------------------------------------------------------------------
(* Claims about the hierarchy *)

RECURSIVE Nodes(_)
\* a node and the nodes below it
Nodes(node) ==
    IF IsNone(node) THEN {}
    ELSE {node} \cup Nodes(node.left) \cup Nodes(node.right)

RECURSIVE LeafObjects(_)
\* the primitives stored in the leaves at and below a node, left to right
LeafObjects(node) ==
    IF IsNone(node) THEN <<>>
    ELSE IF node.object # NoObj THEN <<node.object>>
    ELSE LeafObjects(node.left) \o LeafObjects(node.right)

Contains(outer, inner) ==
    \A i \in 1..3 : /\ outer.p_min[i] <= inner.p_min[i]
                    /\ inner.p_max[i] <= outer.p_max[i]

RECURSIVE SumObjectAreas(_)
SumObjectAreas(objs) ==
    IF objs = <<>> THEN 0 ELSE GetArea(Head(objs)) + SumObjectAreas(Tail(objs))

\* a node whose bounds contain the bounds of the primitives leaves and whose
\* area is the sum of their areas
NodeCovers(node, leaves) ==
    /\ \A k \in 1..Len(leaves) : Contains(node.bounds, GetBounds(leaves[k]))
    /\ node.area = SumObjectAreas(leaves)

\* C1: in a built hierarchy the bounds of every node contain the bounds of
\* every primitive stored in a leaf below it, and the area of every node is
\* the sum of the areas of those primitives.
C1_NodeBoundsAndArea ==
    \A node \in Nodes(root) : NodeCovers(node, LeafObjects(node))

\* a hierarchy built over three or more primitives, with interior nodes below
\* the root
C1_Witness ==
    /\ ~IsNone(root)
    /\ Len(primitives) >= 3
    /\ Cardinality(Nodes(root)) >= 5

\* the nearer of a new hit and the best so far, the first of equals
Nearest(h, best) == IF RatLess(h.distance, best.distance) THEN h ELSE best

\* the linear scan over all primitives that keeps the hit of smallest distance
RECURSIVE LinearScan(_, _, _)
LinearScan(prims, ray, best) ==
    IF prims = <<>> THEN best
    ELSE LinearScan(Tail(prims), ray, Nearest(ObjIntersect(Head(prims), ray), best))

\* what the claim asks of the result got of BVH::intersect: the hit flag,
\* the owning primitive and the distance of the scan
SameHit(got, scan) ==
    /\ got.hit = scan.hit
    /\ got.obj = scan.obj
    /\ (scan.hit => RatEq(got.distance, scan.distance))

\* C2: on a built hierarchy BVH::intersect returns what the linear scan over
\* the primitives returns: the same hit flag, distance and owning primitive.
C2_IntersectIsLinearScan ==
    (~IsNone(root) /\ bvhRay # NoRay) =>
        SameHit(bvhInter, LinearScan(primitives, bvhRay, NewIntersection))

\* C3: BVH::sample on a built hierarchy of positive area returns the pdf
\* 1 / root.area, whichever leaf the descent selects.
C3_SamplePdf ==
    (bvhSample # NoSample /\ root.area > 0) =>
        RatEq(bvhSample.pdf, <<1, root.area>>)

\* a sample taken in a hierarchy whose leaves differ in area, ending in a leaf
\* smaller than the whole
C3_Witness ==
    /\ bvhSample # NoSample
    /\ root.area > 0
    /\ GetArea(bvhSample.obj) < root.area
    /\ \E node \in Nodes(root) : node.object # NoObj /\ node.area = 0

-----------------------------------------------------------------------------
(* scene/scene.rs: the estimator strategy, the light sampling and the       *)
(* radiance estimator Scene::shade.  The radiance itself is not computed:    *)
(* the model follows the calls, their depth and the light sample.            *)

RussianRoulette(probability) ==
    [kind |-> "RussianRoulette", probability |-> probability]

MaximumBounces(max_depth) ==
    [kind |-> "MaximumBounces", max_depth |-> max_depth]

\* The strategies a scene is made with: RussianRoulette(p) for p = 1/2 and
\* p = 1, MaximumBounces(N) for N of 1..MaxBounces
Strategies ==
    {RussianRoulette(<<1, 2>>), RussianRoulette(<<1, 1>>)}
        \cup {MaximumBounces(n) : n \in 1..MaxBounces}

\* determine with "depth <= max_depth"
DetermineInclusive(s, d, u) ==
    IF s.kind = "RussianRoulette" THEN RatLess(u, s.probability)
    ELSE d <= s.max_depth

\* EstimatorStrategy::determine; u is the number
\* sample_uniform_distribution(0.0, 1.0) returns
Determine(s, d, u) ==
    IF s.kind = "RussianRoulette" THEN RatLess(u, s.probability)
    ELSE d < s.max_depth

\* EstimatorStrategy::compensation
Compensation(s) ==
    IF s.kind = "RussianRoulette"
    THEN <<s.probability[2], s.probability[1]>>
    ELSE <<1, 1>>

\* obj.material.has_emission() of a model
ModelEmits(j) == HasEmission(ModelMaterial(j))

RECURSIVE EmitAreaSum(_)
\* Scene::sample_light, the first loop: the areas of the emissive models
EmitAreaSum(ms) ==
    IF ms = <<>> THEN 0
    ELSE (IF ModelEmits(Head(ms)) THEN ModelGetArea(Head(ms)) ELSE 0)
             + EmitAreaSum(Tail(ms))

RECURSIVE PickLight(_, _, _)
\* Scene::sample_light, the second loop: the first emissive model at which
\* the running sum reaches p; 0 when the loop ends without one
\* (panic!("impossible"))
PickLight(ms, p, sum) ==
    IF ms = <<>> THEN 0
    ELSE IF ~ModelEmits(Head(ms)) THEN PickLight(Tail(ms), p, sum)
    ELSE IF RatLeq(p, <<sum + ModelGetArea(Head(ms)), 1>>) THEN Head(ms)
    ELSE PickLight(Tail(ms), p, sum + ModelGetArea(Head(ms)))

\* the model Scene::sample_light selects with the random number u
LightModel(ms, u) == PickLight(ms, <<u[1] * EmitAreaSum(ms), u[2]>>, 0)

\* "return obj.sample()": Model::sample of the selected model, which draws
\* the number u1 for the hierarchy of the model
ModelSample(j, u1) ==
    [obj |-> <<"M", j>>, pdf |-> ObjSamplePdf(<<"M", j>>, <<u1>>)]

\* Scene::sample_light where it does not panic
SampleLight(ms, u, u1) == ModelSample(LightModel(ms, u), u1)

RECURSIVE SceneObjects(_)
\* Scene::build_bvh: the models of the scene as the objects of its hierarchy
SceneObjects(ms) ==
    IF ms = <<>> THEN <<>>
    ELSE <<<<"M", Head(ms)>>>> \o SceneObjects(Tail(ms))

\* the model lists of the scenes
ModelLists == InjSeqs(ModelIds, MaxModels)

\* the object lists the top-level hierarchies are built over
SceneLists == {SceneObjects(ms) : ms \in ModelLists \ {<<>>}}

\* BVH::new(models) and BVH::build(): the hierarchy of every scene
SceneBvhs ==
    [prims \in SceneLists |->
        [primitives |-> prims, root |-> BuildRecursively(prims)]]

\* BVH::intersect of every hierarchy of a scene with every ray
SceneIntersect ==
    [prims \in SceneLists |->
        [ray \in Rays |-> BVHIntersect(SceneBvhs[prims].root, ray)]]

\* "indirect_inter.hit" alone
HitsAnything(inter) == inter.hit

\* "indirect_inter.hit && !indirect_inter.material...has_emission()"
HitsDiffuse(inter) == inter.hit /\ ~HasEmission(inter.material)

\* the depth of the next Scene::shade call
Deeper(d) == IF d < MaxDepth THEN d + 1 ELSE MaxDepth

\* the caller of the scene is outside Scene::cast_ray and alive
Outside == pc \in {"idle", "background", "returned", "error"}

InitScene ==
    /\ BVHAtRest
    /\ models = <<>>
    /\ sceneBvh = NoNode
    /\ strategy \in Strategies
    /\ pc = "idle"
    /\ depth = 0
    /\ hit = NewIntersection
    /\ light = NoSample
    /\ indirectPdf = NoPdf
    /\ RenderAtRest
    /\ BoxAtRest
    /\ NumAtRest
    /\ SdfAtRest

\* Scene::add
Add ==
    \E j \in ModelIds :
        /\ Outside
        /\ Len(models) < MaxModels
        /\ \A k \in 1..Len(models) : models[k] # j
        /\ models' = Append(models, j)
        /\ UNCHANGED <<sceneBvh, strategy, pc, depth, hit, light, indirectPdf, notScene>>

\* Scene::build_bvh of a scene with models
BuildBvh ==
    /\ Outside
    /\ ~CallsItself(SceneObjects(models))
    /\ sceneBvh' = SceneBvhs[SceneObjects(models)]
    /\ UNCHANGED <<models, strategy, pc, depth, hit, light, indirectPdf, notScene>>

\* Scene::build_bvh of a scene without models: build_recursively calls itself
\* on the empty list until the stack overflows
BuildBvhEmpty ==
    /\ Outside
    /\ CallsItself(SceneObjects(models))
    /\ pc' = "aborted"
    /\ UNCHANGED <<models, sceneBvh, strategy, depth, hit, light, indirectPdf, notScene>>

\* Scene::cast_ray before build_bvh: Err("bvh not generated")
CastRayErr ==
    /\ Outside
    /\ IsNone(sceneBvh)
    /\ pc' = "error"
    /\ UNCHANGED <<models, sceneBvh, strategy, depth, hit, light, indirectPdf, notScene>>

\* what Scene::cast_ray does with the intersection of the primary ray: the
\* background colour for a miss, shade(.., 0) for a hit
CastRayOn(inter) ==
    /\ pc' = IF inter.hit THEN "shade" ELSE "background"
    /\ hit' = inter
    /\ depth' = 0
    /\ light' = NoSample
    /\ indirectPdf' = NoPdf
    /\ UNCHANGED <<models, sceneBvh, strategy, notScene>>

\* Scene::cast_ray(ray) of a built scene, up to the call of shade
CastRay ==
    \E ray \in Rays :
        /\ Outside
        /\ ~IsNone(sceneBvh)
        /\ CastRayOn(SceneIntersect[sceneBvh.primitives][ray])


\* Scene::shade of an emissive hit: "return material.get_emission()"
ShadeEmission ==
    /\ pc = "shade"
    /\ HasEmission(hit.material)
    /\ pc' = "returned"
    /\ UNCHANGED <<models, sceneBvh, strategy, depth, hit, light, indirectPdf, notScene>>

\* the hit does not emit, so Scene::shade goes on to sample_light
ShadeDiffuse == pc = "shade" /\ ~HasEmission(hit.material)

\* what Scene::sample_light can return in every scene, over the random
\* numbers it and Model::sample draw; NoSample stands for the panic
SceneLights ==
    [ms \in ModelLists |->
        {IF LightModel(ms, u) = 0 THEN NoSample ELSE SampleLight(ms, u, u1) :
            u \in Draws, u1 \in Draws}]

LightSamples(ms) == SceneLights[ms]

\* what determine(depth) can return, over the random number it draws
Determinations(s, d) == {Determine(s, d, ud) : ud \in Draws}

\* The intersections the indirect ray can have.  The ray leaves the hit
\* point in the direction Material::sample draws; the model takes the rays
\* of Rays for it.
IndirectHits(bvh) == {SceneIntersect[bvh.primitives][ray] : ray \in Rays}

\* Scene::shade of a hit that does not emit, in a scene where sample_light
\* finds no light: panic!("impossible")
ShadePanic ==
    /\ ShadeDiffuse
    /\ NoSample \in LightSamples(models)
    /\ pc' = "panicked"
    /\ UNCHANGED <<models, sceneBvh, strategy, depth, hit, light, indirectPdf, notScene>>

\* Scene::shade where determine(depth) is false: no indirect term, the call
\* and the calls it is nested in return
ShadeStop ==
    /\ ShadeDiffuse
    /\ FALSE \in Determinations(strategy, depth)
    /\ \E l \in LightSamples(models) \ {NoSample} :
        /\ light' = l
        /\ pc' = "returned"
        /\ UNCHANGED <<models, sceneBvh, strategy, depth, hit, indirectPdf, notScene>>

\* Scene::shade where determine(depth) is true and the indirect ray misses
\* or hits a light: no nested call
ShadeLeave ==
    /\ ShadeDiffuse
    /\ TRUE \in Determinations(strategy, depth)
    /\ \E inter \in IndirectHits(sceneBvh) : ~HitsDiffuse(inter)
    /\ \E l \in LightSamples(models) \ {NoSample} :
        /\ light' = l
        /\ pc' = "returned"
        /\ UNCHANGED <<models, sceneBvh, strategy, depth, hit, indirectPdf, notScene>>

\* the numbers Material::sample draws for x1
MaterialDraws == {<<0, 16>>, <<4, 16>>, <<8, 16>>}

\* The cosine of the direction Material::sample returns with the normal:
\* "z = f64::abs(1.0 - 2.0 * x1)", the part of the direction along the normal
\* ("b * local_dir.x + c * local_dir.y + normal * local_dir.z" with b and c
\* at right angles to the normal).
SampleCosine(x1) == <<Abs(x1[2] - 2 * x1[1]), x1[2]>>

\* f64::EPSILON; the model takes 2^-20, which is below every cosine of the
\* model other than zero
F64_EPSILON == <<1, 1048576>>

\* "0.5 / PI"
HalfOverPi == <<50, 314>>

\* Material::pdf(wi, wo, normal), by the cosine "wo.dot(normal)"
MaterialPdf(cosine) ==
    IF RatLess(F64_EPSILON, cosine) THEN HalfOverPi ELSE <<0, 1>>

\* Scene::shade where determine(depth) is true and the indirect ray hits a
\* surface that does not emit: "indirect_pdf = hit_mat.pdf(..)", then
\* shade(indirect_inter, .., depth + 1)
ShadeRecurse ==
    /\ ShadeDiffuse
    /\ TRUE \in Determinations(strategy, depth)
    /\ \E l \in LightSamples(models) \ {NoSample}, inter \in IndirectHits(sceneBvh),
          x1 \in MaterialDraws :
        /\ HitsDiffuse(inter)
        /\ light' = l
        /\ indirectPdf' = MaterialPdf(SampleCosine(x1))
        /\ hit' = inter
        /\ depth' = Deeper(depth)
        /\ UNCHANGED <<models, sceneBvh, strategy, pc, notScene>>

NextScene ==
    \/ Add
    \/ BuildBvh
    \/ BuildBvhEmpty
    \/ CastRayErr
    \/ CastRay
    \/ ShadeEmission
    \/ ShadePanic
    \/ ShadeStop
    \/ ShadeLeave
    \/ ShadeRecurse

SpecScene == InitScene /\ [][NextScene]_vars

\* a step of Scene::shade
ShadeStep ==
    ShadeEmission \/ ShadePanic \/ ShadeStop \/ ShadeLeave \/ ShadeRecurse

\* A call of Scene::shade runs on, and a random number that stops the
\* estimator is drawn in the end wherever one can be drawn again and again.
LiveScene ==
    InitScene /\ [][NextScene]_vars /\ WF_vars(ShadeStep) /\ SF_vars(ShadeStop)

-----------------------------------------------------------------------------
(* Claims about the scene *)

\* C4: the pdf Scene::sample_light returns is 1 / (the sum of the areas of
\* all emissive models of the scene), whichever emissive model was selected,
\* and the model selected emits.
C4_LightPdfOverAllLights ==
    light # NoSample =>
        /\ ModelEmits(light.obj[2])
        /\ RatEq(light.pdf, <<1, EmitAreaSum(models)>>)

\* C5: every call of Scene::shade returns in the end (or the program ends in
\* a panic), under every strategy.
C5_ShadeReturns == (pc = "shade") ~> (pc \in {"returned", "panicked"})

\* C6: under MaximumBounces(N) the weight is 1 and Scene::shade is never
\* entered with a depth greater than N.
C6_DepthAtMostN ==
    strategy.kind = "MaximumBounces" =>
        /\ Compensation(strategy) = <<1, 1>>
        /\ pc = "shade" => depth <= strategy.max_depth

\* a nested call of shade at depth N >= 1 under MaximumBounces(N)
C6_Witness ==
    /\ strategy.kind = "MaximumBounces"
    /\ pc = "shade"
    /\ depth = strategy.max_depth
    /\ ~HasEmission(hit.material)
    /\ light # NoSample

-----------------------------------------------------------------------------
(* renderer/renderer.rs and renderer/texture.rs: Renderer::render of the    *)
(* path tracer, which spawns a thread for every band of rows, each sending   *)
(* its samples down a channel the main thread receives from; and             *)
(* Renderer::render of the ray marcher (src/ray_marching), which has a       *)
(* single thread.  Colours have one component.                               *)

RECURSIVE Factorial(_)
Factorial(n) == IF n = 0 THEN 1 ELSE n * Factorial(n - 1)

\* Every colour cast_ray returns is a multiple of ColorUnit, so that
\* "color / sample_per_pixel" is exact.
ColorUnit == Factorial(MaxSpp)

\* The colour the n-th cast_ray of pixel (i, j) returns in a built scene.
\* The colours are fixed, and differ from sample to sample.
CastColor(i, j, n) == ColorUnit * (1 + i + MaxWidth * (j + MaxHeight * n))

\* the camera_background_color of the scenes the path tracer renders
BackgroundOfRender == ColorUnit * 3

\* RenderTexture::new: a buffer of height rows of width colours, all zero
NewBuffer(width, height) ==
    [y \in 0..(height - 1) |-> [x \in 0..(width - 1) |-> 0]]

\* RenderTexture::set with RenderTextureSetMode::Overwrite
TextureOverwrite(buffer, x, y, color) == [buffer EXCEPT ![y][x] = color]

\* RenderTexture::set with RenderTextureSetMode::Add
TextureAdd(buffer, x, y, color) == [buffer EXCEPT ![y][x] = @ + color]

\* "self.fbo.is_none()"
FboIsNone(f) == f = NoFbo

\* what render returns at its end: Ok(())
RenderedOk == "ok"

\* render returning Ok(()) without a framebuffer
FboNotSetIsOk == "ok"

\* what render returns without a framebuffer: Err("FBO not set")
FboNotSet == "err"

\* u32::min
Min(a, b) == IF a < b THEN a ELSE b

\* the images of the scenes: those of at most MaxSamples samples
Images ==
    {img \in [width : 1..MaxWidth, height : 1..MaxHeight,
              sample_per_pixel : 1..MaxSpp] :
        img.width * img.height * img.sample_per_pixel <= MaxSamples}

\* the model lists of the scenes the renderer is handed: a light alone, and
\* a white surface alone (a scene without a light)
RenderScenes == {<<2>>, <<1>>}

\* A scene for the renderer: one model, its hierarchy built or not
InitRender ==
    /\ BVHAtRest
    /\ BoxAtRest
    /\ NumAtRest
    /\ SdfIdle
    /\ background = BackgroundOfRender
    /\ models \in RenderScenes
    /\ sceneBvh \in {NoNode, SceneBvhs[SceneObjects(models)]}
    /\ strategy = MaximumBounces(1)
    /\ pc = "idle"
    /\ depth = 0
    /\ hit = NewIntersection
    /\ light = NoSample
    /\ indirectPdf = NoPdf
    /\ program \in {"path_tracing", "ray_marching"}
    /\ image \in Images
    /\ fbo \in {NoFbo, NewBuffer(image.width, image.height)}
    /\ renderPc = "idle"
    /\ gap = 0
    /\ nextK = 0
    /\ workers = <<>>
    /\ channel = <<>>
    /\ txOpen = FALSE
    /\ applied = NewBuffer(image.width, image.height)
    /\ nThreads = 0
    /\ tableLock = 0

\* Renderer::render without a framebuffer, in either renderer:
\* Err("FBO not set")
RenderNoFbo ==
    /\ renderPc = "idle"
    /\ FboIsNone(fbo)
    /\ renderPc' = FboNotSet
    /\ UNCHANGED <<program, image, fbo, gap, nextK, workers, channel, txOpen,
                   applied, notRender,
                   nThreads, tableLock>>

\* Renderer::render(scene, n_threads) of the path tracer where n_threads is 0
\* (height / n_threads divides by zero) or more than the height (gap is 0
\* and step_by(0) panics): the main thread panics
RenderPanic ==
    \E n_threads \in 0..MaxThreads :
        /\ program = "path_tracing"
        /\ renderPc = "idle"
        /\ ~FboIsNone(fbo)
        /\ IF n_threads = 0 THEN TRUE ELSE image.height \div n_threads = 0
        /\ renderPc' = "panicked"
        /\ nThreads' = n_threads
        /\ UNCHANGED <<program, image, fbo, gap, nextK, workers, channel,
                       txOpen, applied, notRender, tableLock>>

\* Renderer::render(scene, n_threads) of the path tracer up to the loop that
\* spawns the threads: the channel and the gap
RenderStart ==
    \E n_threads \in 1..MaxThreads :
        /\ program = "path_tracing"
        /\ renderPc = "idle"
        /\ ~FboIsNone(fbo)
        /\ image.height \div n_threads > 0
        /\ renderPc' = "spawning"
        /\ gap' = image.height \div n_threads
        /\ nextK' = 0
        /\ txOpen' = TRUE
        /\ nThreads' = n_threads
        /\ UNCHANGED <<program, image, fbo, workers, channel, applied,
                       notRender, tableLock>>

\* a thread for the band of rows k..end-1, about to cast the first ray of
\* pixel (0, k)
NewWorker(k, end) ==
    [k |-> k, end |-> end, j |-> k, i |-> 0, n |-> 0, state |-> "running"]

\* "for k in (0..scene.height).step_by(gap)": thread::spawn for the next band
Spawn ==
    /\ renderPc = "spawning"
    /\ nextK < image.height
    /\ workers' = Append(workers, NewWorker(nextK, Min(nextK + gap, image.height)))
    /\ nextK' = nextK + gap
    /\ UNCHANGED <<program, image, fbo, renderPc, gap, channel, txOpen,
                   applied, notRender,
                   nThreads, tableLock>>

\* the loop is over: drop(tx)
DropTx ==
    /\ renderPc = "spawning"
    /\ nextK >= image.height
    /\ renderPc' = "receiving"
    /\ txOpen' = FALSE
    /\ UNCHANGED <<program, image, fbo, gap, nextK, workers, channel, applied,
                   notRender,
                   nThreads, tableLock>>


\* where a thread is after the sample n of pixel (i, j): the next sample, the
\* next pixel, the next row, or the end of its closure, where its sender is
\* dropped
Advance(w, img) ==
    IF w.n + 1 < img.sample_per_pixel THEN [w EXCEPT !.n = w.n + 1]
    ELSE IF w.i + 1 < img.width THEN [w EXCEPT !.i = w.i + 1, !.n = 0]
    ELSE IF w.j + 1 < w.end THEN [w EXCEPT !.j = w.j + 1, !.i = 0, !.n = 0]
    ELSE [w EXCEPT !.state = "finished"]

\* The ray of pixel (i, j), the same for each of its samples.  The camera of
\* the model looks down the z axis: the pixels with i + j even look at the
\* light of the scene, the others past it.
PixelRay(i, j) ==
    Ray(IF (i + j) % 2 = 0 THEN <<5, 1, 0>> ELSE <<1, 1, 0>>, <<0, 0, 4>>)

\* what BVH::intersect returns in cast_ray for the ray of pixel (i, j)
PixelInter(i, j) == SceneIntersect[sceneBvh.primitives][PixelRay(i, j)]

\* what BVH::intersect returns in cast_ray for the pixel thread w is at
PrimaryInter(w) == PixelInter(w.i, w.j)

\* the n-th cast_ray of pixel (i, j) in the path tracer's built scene misses
\* every object
PixelMisses(i, j) ==
    /\ program = "path_tracing"
    /\ ~IsNone(sceneBvh)
    /\ ~PixelInter(i, j).hit

\* the colour of the n-th sample of pixel (i, j): Scene::cast_ray of the path
\* tracer returns camera_background_color when the ray misses, and what
\* shade returns when it hits
PixelSample(i, j, n) ==
    IF PixelMisses(i, j) THEN background ELSE CastColor(i, j, n)

\* RenderMessage { x, y, color }
RenderMessage(x, y, color) == [x |-> x, y |-> y, color |-> color]

\* the message of a thread for its sample: "color / s.sample_per_pixel"
SampleMessage(w, img) ==
    RenderMessage(w.i, w.j, PixelSample(w.i, w.j, w.n) \div img.sample_per_pixel)

\* Triangle::intersect of a triangle the ray hits (t > 0.0):
\* "let table = TRIANGLE_TABLE.lock().unwrap()".  The thread waits until the
\* mutex is free and holds it to the end of Triangle::intersect.
WorkerLock ==
    \E id \in 1..Len(workers) :
        /\ workers[id].state = "running"
        /\ ~IsNone(sceneBvh)
        /\ PrimaryInter(workers[id]).hit
        /\ tableLock = 0
        /\ tableLock' = id
        /\ workers' = [workers EXCEPT ![id].state = "locked"]
        /\ UNCHANGED <<program, image, fbo, renderPc, gap, nextK, channel,
                       txOpen, applied, nThreads, notRender>>

\* the thread is past the intersection of its ray: its ray misses every
\* triangle, or it holds the mutex and now releases it
PastIntersect(id) ==
    \/ workers[id].state = "running" /\ ~PrimaryInter(workers[id]).hit
    \/ workers[id].state = "locked"

\* the thread with its mutex guard dropped
Unlocked(w) == [w EXCEPT !.state = "running"]

\* Scene::shade of the hit of the thread's primary ray reaches sample_light
\* in a scene without an emissive model: emit_area_sum is 0, the second loop
\* returns nothing and panic!("impossible") is reached
ShadeFindsNoLight(w) ==
    /\ PrimaryInter(w).hit
    /\ ~HasEmission(PrimaryInter(w).material)
    /\ NoSample \in LightSamples(models)

\* a thread of a built scene: the rest of cast_ray, divide, send
WorkerSend ==
    \E id \in 1..Len(workers) :
        /\ ~IsNone(sceneBvh)
        /\ PastIntersect(id)
        /\ ~ShadeFindsNoLight(workers[id])
        /\ tableLock' = IF tableLock = id THEN 0 ELSE tableLock
        /\ channel' = Append(channel, SampleMessage(workers[id], image))
        /\ workers' =
              [workers EXCEPT ![id] = Advance(Unlocked(workers[id]), image)]
        /\ UNCHANGED <<program, image, fbo, renderPc, gap, nextK, txOpen,
                       applied, nThreads, notRender>>

\* a thread of a scene that is not built: cast_ray returns
\* Err("bvh not generated") and unwrap_or_else panics; the thread ends and
\* its sender is dropped
WorkerPanic ==
    \E id \in 1..Len(workers) :
        /\ workers[id].state = "running"
        /\ IsNone(sceneBvh)
        /\ workers' = [workers EXCEPT ![id].state = "panicked"]
        /\ UNCHANGED <<program, image, fbo, renderPc, gap, nextK, channel,
                       txOpen, applied, notRender,
                   nThreads, tableLock>>

\* a thread of a built scene whose primary ray hits a surface that does not
\* emit, where no model of the scene emits: the mutex guard is dropped at the
\* end of Triangle::intersect, shade panics in sample_light, the thread ends
\* and its sender is dropped.  Nothing is sent.
WorkerShadePanic ==
    \E id \in 1..Len(workers) :
        /\ ~IsNone(sceneBvh)
        /\ PastIntersect(id)
        /\ ShadeFindsNoLight(workers[id])
        /\ tableLock' = IF tableLock = id THEN 0 ELSE tableLock
        /\ workers' = [workers EXCEPT ![id].state = "panicked"]
        /\ UNCHANGED <<program, image, fbo, renderPc, gap, nextK, channel,
                       txOpen, applied, nThreads, notRender>>

\* one more message applied to pixel (x, y)
Counted(count, x, y) == [count EXCEPT ![y][x] = @ + 1]

\* what the consumer does with a message: rt.set(x, y, color, Add)
ReceiveMessage(received) ==
    /\ fbo' = TextureAdd(fbo, received.x, received.y, received.color)
    /\ applied' = Counted(applied, received.x, received.y)

\* "for received in rx": the main thread takes the next message
Receive ==
    /\ renderPc = "receiving"
    /\ channel # <<>>
    /\ ReceiveMessage(Head(channel))
    /\ channel' = Tail(channel)
    /\ UNCHANGED <<program, image, renderPc, gap, nextK, workers, txOpen,
                   notRender,
                   nThreads, tableLock>>

\* "for received in rx" ends when the channel is empty and every sender is
\* dropped; render returns Ok(()).  No thread is joined.
RenderReturn ==
    /\ renderPc = "receiving"
    /\ channel = <<>>
    /\ ~txOpen
    /\ \A id \in 1..Len(workers) :
           workers[id].state \in {"finished", "panicked"}
    /\ renderPc' = RenderedOk
    /\ UNCHANGED <<program, image, fbo, gap, nextK, workers, channel, txOpen,
                   applied, notRender,
                   nThreads, tableLock>>

RECURSIVE SumSamples(_, _, _, _)
\* the sum of the first n samples of pixel (i, j), each divided by spp
SumSamples(i, j, n, spp) ==
    IF n = 0 THEN 0
    ELSE SumSamples(i, j, n - 1, spp) + PixelSample(i, j, n - 1) \div spp

\* the buffer with the samples of every pixel added
MeanImage(buffer, img) ==
    [y \in 0..(img.height - 1) |->
        [x \in 0..(img.width - 1) |->
            buffer[y][x]
                + SumSamples(x, y, img.sample_per_pixel, img.sample_per_pixel)]]

\* Renderer::render of the ray marcher with a framebuffer: for every pixel
\* the samples are summed and rt.set(i, j, color, Add) is called; Ok(())
MarchRender ==
    /\ program = "ray_marching"
    /\ renderPc = "idle"
    /\ ~FboIsNone(fbo)
    /\ fbo' = MeanImage(fbo, image)
    /\ renderPc' = RenderedOk
    /\ UNCHANGED <<program, image, gap, nextK, workers, channel, txOpen,
                   applied, notRender,
                   nThreads, tableLock>>

NextRender ==
    \/ RenderNoFbo
    \/ RenderPanic
    \/ RenderStart
    \/ Spawn
    \/ DropTx
    \/ WorkerLock
    \/ WorkerSend
    \/ WorkerPanic
    \/ WorkerShadePanic
    \/ Receive
    \/ RenderReturn
    \/ MarchRender

SpecRender == InitRender /\ [][NextRender]_vars

-----------------------------------------------------------------------------
(* Claims about the renderer *)

\* C7: when a thread of the path tracer has met the failure of cast_ray on a
\* scene that is not built, render does not return Ok(()).
C7_NotBuiltSurfaced ==
    (IsNone(sceneBvh)
        /\ \E id \in 1..Len(workers) : workers[id].state = "panicked") =>
        renderPc # RenderedOk

\* C8: without a framebuffer render returns the error and nothing else
\* happens: no thread is spawned, no channel is made, no message is sent or
\* applied, in either renderer.
C8_NoFramebuffer ==
    fbo = NoFbo =>
        /\ renderPc \in {"idle", "err"}
        /\ workers = <<>>
        /\ channel = <<>>
        /\ ~txOpen
        /\ applied = NewBuffer(image.width, image.height)

\* render has returned the error for a missing framebuffer
C8_Witness == fbo = NoFbo /\ renderPc = "err"

\* the pixels of an image
Pixels(img) == (0..(img.width - 1)) \X (0..(img.height - 1))

\* pixel p has received sample_per_pixel messages and holds the mean of its
\* samples
HoldsMean(p, img) ==
    /\ applied[p[2]][p[1]] = img.sample_per_pixel
    /\ fbo[p[2]][p[1]] * img.sample_per_pixel
           = SumSamples(p[1], p[2], img.sample_per_pixel, 1)

\* C9: when the path tracer's render has returned Ok(()) from a zeroed
\* framebuffer, every pixel has received sample_per_pixel messages and holds
\* the mean of its samples, and no message is left in the channel.
C9_EveryPixelMean ==
    (program = "path_tracing" /\ renderPc = RenderedOk) =>
        /\ channel = <<>>
        /\ \A p \in Pixels(image) : HoldsMean(p, image)

\* the framebuffer render leaves, by the scene and the image alone
FinalImage ==
    IF IsNone(sceneBvh) \/ NoSample \in LightSamples(models)
    THEN NewBuffer(image.width, image.height)
    ELSE MeanImage(NewBuffer(image.width, image.height), image)

\* C10: the framebuffer the path tracer's render leaves is the same whatever
\* the order of the sends of the threads and the receives of the consumer.
C10_OrderIndependent ==
    (program = "path_tracing" /\ renderPc = RenderedOk) => fbo = FinalImage

\* render has returned on a built scene after several threads sent several
\* samples of every pixel
C10_Witness ==
    /\ program = "path_tracing"
    /\ renderPc = RenderedOk
    /\ ~IsNone(sceneBvh)
    /\ Len(workers) >= 2
    /\ image.sample_per_pixel >= 2
    /\ image.width >= 2

\* C11: no thread of the renderer ever takes a lock inside an intersection
\* routine: the mutex of TRIANGLE_TABLE is never held while rendering.
C11_NoLockInIntersect ==
    /\ tableLock = 0
    /\ \A id \in 1..Len(workers) : workers[id].state # "locked"

\* the threads whose band holds the row
BandsOf(row) ==
    {id \in 1..Len(workers) : workers[id].k <= row /\ row < workers[id].end}

\* C12: once render(scene, n_threads) has spawned its threads there are
\* exactly n_threads bands, one for each thread, and every row of the image
\* is in exactly one band.
C12_ExactlyNBands ==
    (program = "path_tracing" /\ renderPc \in {"receiving", RenderedOk}) =>
        /\ Len(workers) = nThreads
        /\ \A row \in 0..(image.height - 1) : Cardinality(BandsOf(row)) = 1

\* C21: when a primary ray hits a surface that does not emit in a scene
\* without an emissive model, the failure reaches the caller of render as an
\* error: render does not return Ok(()) with pixels left unwritten.
C21_NoLightIsAnError ==
    (\E id \in 1..Len(workers) :
        /\ workers[id].state = "panicked"
        /\ ~IsNone(sceneBvh)
        /\ ShadeFindsNoLight(workers[id])) =>
        renderPc # RenderedOk

-----------------------------------------------------------------------------
(* bvh/bounds.rs as a state machine: a Bounds3 made by Bounds3::zero or by   *)
(* Bounds3::from_points, and the methods that are called on it.              *)

\* the coordinates of the points
Coords == {-2, 2}

Points == Coords \X Coords \X Coords

\* the boxes from_points makes
Boxes == {FromPoints(p1, p2) : p1, p2 \in Points}

\* "let mut max_bounds = Bounds3::zero()", or a box made by from_points
InitBounds ==
    /\ BVHAtRest
    /\ SceneAtRest
    /\ RenderAtRest
    /\ SdfAtRest
    /\ NumAtRest
    /\ box \in {BoundsZero} \cup Boxes
    /\ boxWas = box
    /\ boxCall = NoCall
    /\ boxAxis = 0

\* box.union(&b)
BoundsUnion ==
    \E b \in Boxes :
        /\ box' = Union2(box, b)
        /\ boxWas' = box
        /\ boxCall' = [op |-> "union", p |-> VZero, b |-> b]
        /\ UNCHANGED <<boxAxis, notBox>>

\* box.union_point(&p)
BoundsUnionPoint ==
    \E p \in Points :
        /\ box' = UnionPoint(box, p)
        /\ boxWas' = box
        /\ boxCall' = [op |-> "union_point", p |-> p, b |-> BoundsZero]
        /\ UNCHANGED <<boxAxis, notBox>>

\* box.max_extent_axis()
BoundsMaxExtentAxis ==
    /\ boxAxis' = MaxExtentAxis(box)
    /\ boxWas' = box
    /\ boxCall' = [op |-> "max_extent_axis", p |-> VZero, b |-> BoundsZero]
    /\ UNCHANGED <<box, notBox>>

NextBounds == BoundsUnion \/ BoundsUnionPoint \/ BoundsMaxExtentAxis

SpecBounds == InitBounds /\ [][NextBounds]_vars

\* the box of the single point p
PointBox(p) == [p_min |-> p, p_max |-> p]

\* C13: a Bounds3 made by Bounds3::zero is empty: union_point with a point P
\* makes it the box [P, P], and union with a box B makes it B.
C13_ZeroIsEmpty ==
    boxWas = BoundsZero =>
        /\ boxCall.op = "union_point" => box = PointBox(boxCall.p)
        /\ boxCall.op = "union" => box = boxCall.b

\* the extent of the box along an axis
Extent(b, a) == Diagonal(b)[a]

\* the first of X, Y, Z whose extent is the greatest
FirstMaximalAxis(b) ==
    CHOOSE a \in 1..3 :
        /\ \A c \in 1..3 : Extent(b, c) <= Extent(b, a)
        /\ \A c \in 1..(a - 1) : Extent(b, c) < Extent(b, a)

\* C14: max_extent_axis returns an axis of the greatest extent, and of the
\* axes of the greatest extent the first in the order X, Y, Z.
C14_TiesToXThenY ==
    boxCall.op = "max_extent_axis" => boxAxis = FirstMaximalAxis(box)

-----------------------------------------------------------------------------
(* sdf/mod.rs of the ray marchers (src/ray_marching and                      *)
(* src/ray_marching_wgpu): the scene of ShapeOp chains, its distance         *)
(* function and the sphere tracing of a ray.  The grid step of the model is  *)
(* the march accuracy of the program.                                        *)

\* most nodes added to the scene of a ray marcher
MaxNodes == 3

\* most nodes added as roots
MaxRoots == 2

\* most calls that set a scene up: nodes and roots added
MaxSetUp == 4

\* Scene::ray_march: "let max_steps = 300"
MAX_STEPS == 300

\* Scene::ray_march: "let march_accuracy = 1e-3", one grid step
MARCH_ACCURACY == 1

\* f64::max
Max(a, b) == IF a > b THEN a ELSE b

\* Vector3f::length, exact: a vector along an axis has the length of its
\* component
SdfLength(v) ==
    IF Cardinality({c \in 1..3 : v[c] # 0}) <= 1
    THEN Abs(v[1]) + Abs(v[2]) + Abs(v[3])
    ELSE Length(v)

\* Sphere::sdf
SphereSdf(center, radius, p) == SdfLength(VSub(center, p)) - radius

\* Cube::sdf
CubeSdf(center, most_front_up_right, p) ==
    LET d == << Abs(p[1] - center[1]) - most_front_up_right[1],
                Abs(p[2] - center[2]) - most_front_up_right[2],
                Abs(p[3] - center[3]) - most_front_up_right[3] >>
        d_clamped == << Max(d[1], 0), Max(d[2], 0), Max(d[3], 0) >>
    IN  SdfLength(d_clamped) + Min(Max(Max(d[1], d[2]), d[3]), 0)

\* the shapes of the scenes: 1 is a sphere on the x axis, 2 is a long cube
\* beside the x axis, at the same distance from every point of the axis the
\* model evaluates
SdfShapes == 1..2

\* Shape::sdf of a shape
ShapeDistance(shape, p) ==
    IF shape = 1 THEN SphereSdf(<<7, 0, 0>>, 2, p)
    ELSE CubeSdf(<<0, 6, 0>>, <<4000, 2, 2>>, p)

\* ShapeOpType
ShapeOpTypes == {"Nop", "Union", "Subtraction", "Intersection"}

\* ShapeOp { index, material, shape, op, next }: next is the position of a
\* node in Scene.nodes, 0 = None
ShapeOp(index, material, shape, op, next) ==
    [index |-> index, material |-> material, shape |-> shape, op |-> op,
     next |-> next]

\* the ShapeOp of src/ray_marching has no index
NoIndex == 0 - 1

\* an index that counts from one
IndexFromOne(nodes) == Len(nodes) + 1

\* "let idx = self.nodes.len()"
IndexOf(nodes) == Len(nodes)

\* "index: idx as i32" of src/ray_marching_wgpu
NodeIndex(e, nodes) ==
    IF e = "ray_marching_wgpu" THEN IndexOf(nodes) ELSE NoIndex

\* the material a shape is added with: each shape has a material of its own
MaterialOf(shape) == shape

\* Scene::add_material of src/ray_marching_wgpu: a material not yet in the
\* table is pushed, and its index is its position; src/ray_marching keeps no
\* materials
AddMaterial(e, materials, material) ==
    IF e # "ray_marching_wgpu" THEN materials
    ELSE IF \E k \in 1..Len(materials) : materials[k] = material
    THEN materials
    ELSE Append(materials, material)

\* the node add_leaf_node or add_node pushes
NewNode(shape, op, next) ==
    ShapeOp(NodeIndex(evaluator, sdfNodes), MaterialOf(shape), shape, op, next)

\* ShapeOp::op_sdf of an operation that is not Nop
OpSdf(sdf_a, op, sdf_b) ==
    IF op = "Union" THEN Min(sdf_a, sdf_b)
    ELSE IF op = "Subtraction" THEN Max(sdf_a, -sdf_b)
    ELSE Max(sdf_a, sdf_b)

\* the operation a step of shape_sdf combines with.  src/ray_marching passes
\* "&self.op", the operation of the node shape_sdf is called on;
\* src/ray_marching_wgpu passes "&cur.op", the operation of the node whose
\* successor is being combined.
StepOp(first, cur) ==
    IF evaluator = "ray_marching" THEN sdfNodes[first].op
    ELSE sdfNodes[cur].op

RECURSIVE ShapeSdfLoop(_, _, _, _)
\* "while let Some(op) = next" of shape_sdf called on the node first: sdf_f
\* so far and the node cur whose successor comes next; op_sdf panics on Nop
ShapeSdfLoop(first, cur, sdf_f, p) ==
    IF sdfNodes[cur].next = 0 THEN Returned(sdf_f, 0)
    ELSE IF StepOp(first, cur) = "Nop" THEN Panicked
    ELSE ShapeSdfLoop(first, sdfNodes[cur].next,
                      OpSdf(sdf_f, StepOp(first, cur),
                            ShapeDistance(sdfNodes[sdfNodes[cur].next].shape, p)),
                      p)

\* ShapeOp::shape_sdf of the node n
ShapeSdf(n, p) ==
    ShapeSdfLoop(n, n, ShapeDistance(sdfNodes[n].shape, p), p)

\* a root is taken when its distance is at most the least so far
CloserRootOrEqual(dist, least) == dist <= least

\* Scene::sdf: "if dist < result.distance"
CloserRoot(dist, least) == dist < least

\* the result of Scene::sdf after one more root
SdfStep(result, dist, node) ==
    IF CloserRoot(dist, result.distance) THEN Returned(dist, node) ELSE result

RECURSIVE SdfLoop(_, _, _)
\* "for node in &self.root_nodes" of Scene::sdf from the k-th root on
SdfLoop(k, result, p) ==
    IF k > Len(sdfRoots) THEN result
    ELSE IF ShapeSdf(sdfRoots[k], p).panicked THEN Panicked
    ELSE SdfLoop(k + 1,
                 SdfStep(result, ShapeSdf(sdfRoots[k], p).distance, sdfRoots[k]),
                 p)

\* Scene::sdf
SceneSdf(p) == SdfLoop(1, NewHitResult, p)

\* Ray::eval
RayEval(origin, direction, t) ==
    << origin[1] + direction[1] * t,
       origin[2] + direction[2] * t,
       origin[3] + direction[3] * t >>

\* the points Scene::sdf and shape_sdf are asked at
SdfPoints == {<<1, 0, 0>>, <<6, 0, 0>>}

\* Scene::new of either ray marcher
InitSdf ==
    /\ BVHAtRest
    /\ SceneAtRest
    /\ RenderAtRest
    /\ BoxAtRest
    /\ NumAtRest
    /\ evaluator \in {"ray_marching", "ray_marching_wgpu"}
    /\ sdfNodes = <<>>
    /\ sdfRoots = <<>>
    /\ sdfMaterials = <<>>
    /\ background = 0
    /\ sdfCall = NoSdfCall
    /\ march = NoMarch
    /\ cast = NoCast
    /\ sdfGround = 0

\* the scene is set up before it is asked anything, with at most MaxSetUp
\* calls
SettingUp ==
    /\ sdfCall = NoSdfCall
    /\ Len(sdfNodes) + Len(sdfRoots) + (IF sdfGround = 0 THEN 0 ELSE 1)
           < MaxSetUp

\* Scene::sdf and shape_sdf change nothing, so a behaviour makes one call of
\* them, on the scene as it is; they do not read ground_node, and are called
\* on the scenes whose ground is not set.
Alive == sdfCall = NoSdfCall /\ sdfGround = 0

\* Scene::add_leaf_node
AddLeafNode ==
    \E shape \in SdfShapes :
        /\ SettingUp
        /\ Len(sdfNodes) < MaxNodes
        /\ sdfNodes' = Append(sdfNodes, NewNode(shape, "Nop", 0))
        /\ sdfMaterials' = AddMaterial(evaluator, sdfMaterials, MaterialOf(shape))
        /\ UNCHANGED <<evaluator, sdfRoots, background, sdfCall, march, cast,
                       sdfGround, notSdf>>

\* references to the nodes there are, to the node being added too
ExistingOrOwn(nodes) == 0..(Len(nodes) + 1)

\* "next: Option<&'a ShapeOp<'a>>" of add_node: None, or a reference an
\* earlier add_leaf_node or add_node has returned
Existing(nodes) == 0..Len(nodes)

\* Scene::add_node(shape, material, op, next).  next is a reference to a node
\* that exists, or None: in front of the node added last, as the programs
\* build their chains ("scene.add_node(shape, material, op, prev_op)"), with
\* every operation; in front of any other node, or of none, with Union.
AddNode ==
    \E shape \in SdfShapes, op \in ShapeOpTypes, next \in Existing(sdfNodes) :
        /\ SettingUp
        /\ Len(sdfNodes) < MaxNodes
        /\ IF next = Len(sdfNodes) THEN next > 0 ELSE op = "Union"
        /\ sdfNodes' = Append(sdfNodes, NewNode(shape, op, next))
        /\ sdfMaterials' = AddMaterial(evaluator, sdfMaterials, MaterialOf(shape))
        /\ UNCHANGED <<evaluator, sdfRoots, background, sdfCall, march, cast,
                       sdfGround, notSdf>>

\* Scene::add_root_node of a node that is not a root yet
AddRootNode ==
    \E n \in 1..Len(sdfNodes) :
        /\ SettingUp
        /\ Len(sdfRoots) < MaxRoots
        /\ \A k \in 1..Len(sdfRoots) : sdfRoots[k] # n
        /\ sdfRoots' = Append(sdfRoots, n)
        /\ UNCHANGED <<evaluator, sdfNodes, background, sdfCall, march, cast, arenaVars, notSdf>>

\* Scene::set_ground, of a root as the programs call it
\* ("scene.add_root_node(ground); scene.set_ground(ground)")
SetGround ==
    \E k \in 1..Len(sdfRoots) :
        /\ SettingUp
        /\ sdfGround = 0
        /\ sdfGround' = sdfRoots[k]
        /\ UNCHANGED <<evaluator, sdfNodes, sdfRoots, background, sdfCall,
                       march, cast, sdfMaterials, notSdf>>

\* a call of ShapeOp::shape_sdf
CallShapeSdf ==
    \E n \in 1..Len(sdfNodes), p \in SdfPoints :
        /\ Alive
        /\ sdfCall' = SdfCalled("shape_sdf", n, p, ShapeSdf(n, p))
        /\ UNCHANGED <<evaluator, sdfNodes, sdfRoots, background, march, cast, arenaVars, notSdf>>

\* a call of Scene::sdf
CallSdf ==
    \E p \in SdfPoints :
        /\ Alive
        /\ sdfCall' = SdfCalled("sdf", 0, p, SceneSdf(p))
        /\ UNCHANGED <<evaluator, sdfNodes, sdfRoots, background, march, cast, arenaVars, notSdf>>

NextSdf ==
    \/ AddLeafNode
    \/ AddNode
    \/ AddRootNode
    \/ SetGround
    \/ CallShapeSdf
    \/ CallSdf

SpecSdf == InitSdf /\ [][NextSdf]_vars

-----------------------------------------------------------------------------
(* Scene::ray_march of the ray marchers, pass by pass of its loop, on a     *)
(* scene that is set up.                                                     *)

\* a distance below the accuracy
BelowAccuracy(distance) == distance < MARCH_ACCURACY

\* Scene::ray_march: "if hit.distance <= march_accuracy"
WithinAccuracy(distance) == distance <= MARCH_ACCURACY

\* a scene set up: its nodes and its roots
SetUp(nodes, roots) == [nodes |-> nodes, roots |-> roots]

\* the scenes ray_march is called on: no root; the sphere; the cube; both,
\* in either order; the sphere with the cube as its successor and no
\* operation
MarchScenes ==
    { SetUp(<<>>, <<>>),
      SetUp(<< <<1, "Nop", 0>> >>, <<1>>),
      SetUp(<< <<2, "Nop", 0>> >>, <<1>>),
      SetUp(<< <<1, "Nop", 0>>, <<2, "Nop", 0>> >>, <<1, 2>>),
      SetUp(<< <<1, "Nop", 0>>, <<2, "Nop", 0>> >>, <<2, 1>>),
      SetUp(<< <<2, "Nop", 0>>, <<1, "Nop", 1>> >>, <<2>>) }

\* Scene.nodes after the add_leaf_node and add_node calls added, each
\* <<shape, op, next>>, in the ray marcher e
Arena(e, added) ==
    [k \in 1..Len(added) |->
        ShapeOp(IF e = "ray_marching_wgpu" THEN k - 1 ELSE NoIndex,
                MaterialOf(added[k][1]), added[k][1], added[k][2],
                added[k][3])]

RECURSIVE Registry(_, _, _)
\* Scene.materials after those calls
Registry(e, materials, added) ==
    IF added = <<>> THEN materials
    ELSE Registry(e, AddMaterial(e, materials, MaterialOf(Head(added)[1])),
                  Tail(added))

\* the directions of the rays; the rays start at the origin
MarchDirections == {<<1, 0, 0>>, <<-1, 0, 0>>}

\* the max_dist arguments of ray_march
MaxDists == {12, 2000}

\* the background colours of the scenes
Backgrounds == {0, 3}

\* the colours _cast_ray computes for a ray that hits a shape
ShadedColors == {1, 2}

\* _cast_ray: "self.ray_march(ray, 1e5)"
CAST_MAX_DIST == 2000

InitMarch ==
    /\ BVHAtRest
    /\ SceneAtRest
    /\ RenderAtRest
    /\ BoxAtRest
    /\ NumAtRest
    /\ evaluator \in {"ray_marching", "ray_marching_wgpu"}
    /\ \E scene \in MarchScenes :
           /\ sdfNodes = Arena(evaluator, scene.nodes)
           /\ sdfRoots = scene.roots
           /\ sdfMaterials = Registry(evaluator, <<>>, scene.nodes)
    /\ background \in Backgrounds
    /\ sdfCall = NoSdfCall
    /\ march = NoMarch
    /\ cast = NoCast
    /\ sdfGround = 0

\* Scene::ray_march is called: "let mut dist = 0.0"
CallRayMarch ==
    \E direction \in MarchDirections, max_dist \in MaxDists :
        /\ march.pc = "idle"
        /\ cast.pc = "idle"
        /\ march' = Marching("loop", direction, max_dist, 0, 0, NewHitResult)
        /\ UNCHANGED <<evaluator, sdfNodes, sdfRoots, background, sdfCall,
                       cast, arenaVars, notSdf>>

\* Scene::cast_ray is called with a primary ray: _cast_ray(ray, 0, None)
\* calls ray_march(ray, 1e5)
CallCastRay ==
    \E direction \in MarchDirections :
        /\ march.pc = "idle"
        /\ cast.pc = "idle"
        /\ march' = Marching("loop", direction, CAST_MAX_DIST, 0, 0, NewHitResult)
        /\ cast' = Casting("marching", FALSE, <<0, 1>>)
        /\ UNCHANGED <<evaluator, sdfNodes, sdfRoots, background, sdfCall,
                       arenaVars, notSdf>>

\* the "HDR" step of cast_ray on a colour: color / (color + 1.0)
Hdr(color) == <<color, color + 1>>

\* cast_ray after ray_march has returned: _cast_ray returns the colour it
\* computes for a hit, or self.background_color for a miss at depth 0, and
\* cast_ray returns it through the HDR step
CastRayReturn ==
    /\ cast.pc = "marching"
    /\ march.pc = "returned"
    /\ IF march.result.shape_op = 0
       THEN cast' = Casting("returned", FALSE, Hdr(background))
       ELSE \E shaded \in ShadedColors :
                cast' = Casting("returned", TRUE, Hdr(shaded))
    /\ UNCHANGED <<evaluator, sdfNodes, sdfRoots, background, sdfCall, march,
                   arenaVars, notSdf>>

\* what Scene::sdf returns at ray.eval(dist)
MarchSdf == SceneSdf(RayEval(VZero, march.direction, march.dist))

\* ray_march after a pass of its loop in which Scene::sdf returned sdf_hit:
\* a panic of op_sdf, the hit returned, the break at max_dist followed by
\* "return HitResult::new()", or the next pass
Passed(m, sdf_hit) ==
    IF sdf_hit.panicked
    THEN [m EXCEPT !.pc = "panicked", !.step = m.step + 1]
    ELSE IF WithinAccuracy(sdf_hit.distance)
    THEN [m EXCEPT !.pc = "returned", !.step = m.step + 1,
                   !.result = Returned(m.dist, sdf_hit.shape_op)]
    ELSE IF m.dist + sdf_hit.distance >= m.max_dist
    THEN [m EXCEPT !.pc = "returned", !.step = m.step + 1,
                   !.dist = m.dist + sdf_hit.distance]
    ELSE [m EXCEPT !.step = m.step + 1, !.dist = m.dist + sdf_hit.distance]

\* a pass of "for _ in 0..max_steps"
MarchPass ==
    /\ march.pc = "loop"
    /\ march.step < MAX_STEPS
    /\ march' = Passed(march, MarchSdf)
    /\ UNCHANGED <<evaluator, sdfNodes, sdfRoots, background, sdfCall, cast,
                   arenaVars, notSdf>>

\* the loop has run max_steps times: "return HitResult::new()"
MarchOut ==
    /\ march.pc = "loop"
    /\ march.step >= MAX_STEPS
    /\ march' = [march EXCEPT !.pc = "returned"]
    /\ UNCHANGED <<evaluator, sdfNodes, sdfRoots, background, sdfCall, cast,
                   arenaVars, notSdf>>

NextMarch ==
    \/ CallRayMarch
    \/ CallCastRay
    \/ MarchPass
    \/ MarchOut
    \/ CastRayReturn

SpecMarch == InitMarch /\ [][NextMarch]_vars

\* the loop of ray_march is a loop of the one thread that called it
LiveMarch == SpecMarch /\ WF_vars(MarchPass) /\ WF_vars(MarchOut)

\* ray_march has evaluated Scene::sdf at most max_steps times, once in each
\* pass of its loop, and starts at dist = 0
MarchBounded ==
    /\ march.step <= MAX_STEPS
    /\ march.step = 0 => march.dist = 0

\* what ray_march has returned: a hit at dist, where the distance of the
\* scene is within the accuracy, with the root Scene::sdf reports there; or
\* a miss, when dist has reached max_dist or max_steps passes are used up
MarchResult ==
    march.pc = "returned" =>
        IF march.result = NewHitResult
        THEN march.dist >= march.max_dist \/ march.step = MAX_STEPS
        ELSE /\ march.result.distance = march.dist
             /\ MarchSdf.distance <= MARCH_ACCURACY
             /\ march.result.shape_op = MarchSdf.shape_op
             /\ march.dist < march.max_dist \/ march.dist = 0

\* a pass of the loop on a scene whose chains are valid: the hit is returned
\* when the distance of the scene is within the accuracy; otherwise dist
\* grows by that distance and the miss is returned when it has reached
\* max_dist
MarchPassed ==
    (march.pc = "loop" /\ march' # march /\ march.step < MAX_STEPS
        /\ ~MarchSdf.panicked) =>
        IF MarchSdf.distance <= MARCH_ACCURACY
        THEN /\ march'.pc = "returned"
             /\ march'.result = Returned(march.dist, MarchSdf.shape_op)
        ELSE /\ march'.dist = march.dist + MarchSdf.distance
             /\ march'.result = NewHitResult
             /\ march'.pc = IF march'.dist >= march.max_dist
                            THEN "returned" ELSE "loop"

\* C15: ray_march starts at dist = 0 and evaluates the distance of the scene
\* at most 300 times; a pass returns the hit at dist with the nearest root
\* when that distance is at most the accuracy, and otherwise adds it to dist
\* and returns a miss as soon as dist >= max_dist; after 300 passes it
\* returns a miss; and a call of ray_march always comes to its end.
C15_RayMarchEnds ==
    /\ [](MarchBounded /\ MarchResult)
    /\ [][MarchPassed]_vars
    /\ (march.pc = "loop") ~> (march.pc \in {"returned", "panicked"})

\* ray_march has returned a miss after max_steps passes, short of max_dist
C15_Witness ==
    /\ march.pc = "returned"
    /\ march.step = MAX_STEPS
    /\ march.result = NewHitResult
    /\ march.dist < march.max_dist

-----------------------------------------------------------------------------
(* Claims about the distance function of the ray marchers *)

\* the distance of the chain of the k-th root at the point of the last call
RootDistance(k) == ShapeSdf(sdfRoots[k], sdfCall.p).distance

\* the k-th root is the first of the nearest roots
FirstNearest(k) ==
    /\ \A j \in 1..Len(sdfRoots) : RootDistance(k) <= RootDistance(j)
    /\ \A j \in 1..(k - 1) : RootDistance(k) < RootDistance(j)

\* C16: Scene::sdf(p) returns the least of the distances of the chains of the
\* roots at p with the root of that chain, the first added of them when
\* several are nearest, and f64::MAX with no shape when there is no root.
C16_SdfIsNearestRoot ==
    (sdfCall.op = "sdf" /\ ~sdfCall.result.panicked) =>
        IF sdfRoots = <<>> THEN sdfCall.result = Returned(F64Max, 0)
        ELSE \E k \in 1..Len(sdfRoots) :
                /\ FirstNearest(k)
                /\ sdfCall.result = Returned(RootDistance(k), sdfRoots[k])

\* Scene::sdf has returned at a point where two roots are equally near
C16_Witness ==
    /\ sdfCall.op = "sdf"
    /\ ~sdfCall.result.panicked
    /\ Len(sdfRoots) = 2
    /\ RootDistance(1) = RootDistance(2)
    /\ sdfCall.result.shape_op = sdfRoots[1]

RECURSIVE OwnOpFold(_, _, _)
\* the left fold of the chain from the node cur on, sdf_f so far, each step
\* with the operation of the node whose successor is combined
OwnOpFold(cur, sdf_f, p) ==
    IF sdfNodes[cur].next = 0 THEN sdf_f
    ELSE OwnOpFold(sdfNodes[cur].next,
                   OpSdf(sdf_f, sdfNodes[cur].op,
                         ShapeDistance(sdfNodes[sdfNodes[cur].next].shape, p)),
                   p)

RECURSIVE NopInside(_)
\* the chain from the node n on has a node with a successor and no operation
NopInside(n) ==
    /\ sdfNodes[n].next # 0
    /\ sdfNodes[n].op = "Nop" \/ NopInside(sdfNodes[n].next)

\* C17: shape_sdf of a chain without a Nop inside is the left fold of the
\* distances of its shapes in which every step uses the operation of its own
\* node, in either ray marcher.
C17_FoldWithOwnOps ==
    (sdfCall.op = "shape_sdf" /\ ~NopInside(sdfCall.node)) =>
        sdfCall.result =
            Returned(OwnOpFold(sdfCall.node,
                               ShapeDistance(sdfNodes[sdfCall.node].shape,
                                             sdfCall.p),
                               sdfCall.p), 0)

\* C18: shape_sdf of a leaf returns the distance of its shape, and shape_sdf
\* of a chain with a Nop node that has a successor panics.
C18_NopOnlyOnLeaf ==
    sdfCall.op = "shape_sdf" =>
        /\ sdfNodes[sdfCall.node].next = 0 =>
               sdfCall.result =
                   Returned(ShapeDistance(sdfNodes[sdfCall.node].shape,
                                          sdfCall.p), 0)
        /\ NopInside(sdfCall.node) => sdfCall.result.panicked

-----------------------------------------------------------------------------
(* Claims about the scene of the path tracer and its hierarchy *)

\* the objects of a list, as a set
ObjectsOf(prims) == {prims[k] : k \in 1..Len(prims)}

\* C19: once build_bvh has run, the models the top-level hierarchy holds are
\* the models of the scene: no model is added after build_bvh.
C19_BvhHoldsTheModels ==
    ~IsNone(sceneBvh) =>
        ObjectsOf(sceneBvh.primitives) = ObjectsOf(SceneObjects(models))

-----------------------------------------------------------------------------
(* Claims about the colour of a ray that hits nothing *)

\* C20: cast_ray of a primary ray that hits nothing returns exactly the
\* background colour of the scene.
C20_MissIsBackground ==
    (cast.pc = "returned" /\ ~cast.found) =>
        RatEq(cast.color, <<background, 1>>)


-----------------------------------------------------------------------------
(* Floating point.  The components of a Vector3f are f32 (math/vector.rs),  *)
(* and every sum, difference, product, quotient and square root is rounded  *)
(* to the nearest number of the format, ties to even.  The numbers of the   *)
(* model are binary floating-point numbers rounded the same way, with       *)
(* MantissaBits significant bits where f32 has 24, and with an exponent     *)
(* without bounds (no overflow, no subnormal numbers).  A number is         *)
(* <<m, e>>, standing for m * 2^e: <<0, 0>> is zero, every other number has   *)
(* 2^(MantissaBits-1) <= |m| < 2^MantissaBits.                              *)

\* the significant bits of a number
MantissaBits == 8

Pow2 == [k \in 0..30 |-> 2 ^ k]

\* the number of bits of n >= 0
BitLen(n) ==
    CHOOSE k \in 0..30 :
        n < Pow2[k] /\ (IF k = 0 THEN TRUE ELSE n >= Pow2[k - 1])

\* n >= 0 without its k >= 1 lowest bits, rounded to nearest, ties to even
HalfEven(n, k) ==
    IF \/ n % Pow2[k] > Pow2[k - 1]
       \/ n % Pow2[k] = Pow2[k - 1] /\ (n \div Pow2[k]) % 2 = 1
    THEN n \div Pow2[k] + 1
    ELSE n \div Pow2[k]

\* m * 2^e for 0 < m <= 2^MantissaBits, with the mantissa in its range
FNorm(m, e) ==
    IF m = Pow2[MantissaBits] THEN <<Pow2[MantissaBits - 1], e + 1>>
    ELSE <<m * Pow2[MantissaBits - BitLen(m)],
           e - (MantissaBits - BitLen(m))>>

\* the number nearest to n * 2^e, for n > 0
FRoundPos(n, e) ==
    IF BitLen(n) > MantissaBits
    THEN FNorm(HalfEven(n, BitLen(n) - MantissaBits),
               e + BitLen(n) - MantissaBits)
    ELSE FNorm(n, e)

\* unary minus
FNeg(a) == <<-a[1], a[2]>>

\* the number nearest to n * 2^e
FRound(n, e) ==
    IF n = 0 THEN <<0, 0>>
    ELSE IF n < 0 THEN FNeg(FRoundPos(-n, e))
    ELSE FRoundPos(n, e)

\* an integer as a number of the format
F(n) == FRound(n, 0)

\* a + b for numbers other than zero with a[2] >= b[2]; a summand below an
\* eighth of the last place of the other does not change it
FAddAligned(a, b) ==
    IF a[2] - b[2] > MantissaBits + 2 THEN a
    ELSE FRound(a[1] * Pow2[a[2] - b[2]] + b[1], b[2])

\* a + b
FAdd(a, b) ==
    IF a[1] = 0 THEN b
    ELSE IF b[1] = 0 THEN a
    ELSE IF a[2] >= b[2] THEN FAddAligned(a, b)
    ELSE FAddAligned(b, a)

\* a - b
FSub(a, b) == FAdd(a, FNeg(b))

\* a * b
FMul(a, b) == FRound(a[1] * b[1], a[2] + b[2])

\* a < b: rounding keeps the sign of a difference
FLess(a, b) == FSub(a, b)[1] < 0

\* the quotient 2^(2 * MantissaBits + 2) / m with one more bit, which is set
\* when the division leaves a remainder
RecipBits(m) ==
    2 * (Pow2[2 * MantissaBits + 2] \div m)
        + (IF Pow2[2 * MantissaBits + 2] % m = 0 THEN 0 ELSE 1)

\* 1.0 / a, for a other than zero
FRecip(a) ==
    IF a[1] < 0
    THEN FRound(-RecipBits(-a[1]), -a[2] - (2 * MantissaBits + 3))
    ELSE FRound(RecipBits(a[1]), -a[2] - (2 * MantissaBits + 3))

RECURSIVE SqrtFloor(_, _, _)
\* the largest r with r * r <= n, given lo * lo <= n < hi * hi
SqrtFloor(n, lo, hi) ==
    IF hi - lo = 1 THEN lo
    ELSE IF ((lo + hi) \div 2) * ((lo + hi) \div 2) <= n
         THEN SqrtFloor(n, (lo + hi) \div 2, hi)
         ELSE SqrtFloor(n, lo, (lo + hi) \div 2)

\* the square root of m * 2^e, e even, with
\* 2 * MantissaBits more bits and one that is set when the root is not exact
SqrtBits(m, e) ==
    2 * SqrtFloor(m * Pow2[2 * MantissaBits], 0, Pow2[2 * MantissaBits])
        + (IF SqrtFloor(m * Pow2[2 * MantissaBits], 0, Pow2[2 * MantissaBits])
                  * SqrtFloor(m * Pow2[2 * MantissaBits], 0,
                              Pow2[2 * MantissaBits])
              = m * Pow2[2 * MantissaBits]
           THEN 0 ELSE 1)

\* f32::sqrt(a), for a > 0
FSqrt(a) ==
    IF a[2] % 2 = 0
    THEN FRound(SqrtBits(a[1], a[2]), a[2] \div 2 - MantissaBits - 1)
    ELSE FRound(SqrtBits(2 * a[1], a[2] - 1),
                (a[2] - 1) \div 2 - MantissaBits - 1)

\* f32::EPSILON: the step from 1.0 to the next number
FEpsilon == <<Pow2[MantissaBits - 1], -2 * (MantissaBits - 1)>>

\* a vector of integers as a Vector3f
FVec(v) == <<F(v[1]), F(v[2]), F(v[3])>>

\* Sub for Vector3f
FVSub(a, b) == <<FSub(a[1], b[1]), FSub(a[2], b[2]), FSub(a[3], b[3])>>

\* Vector3f::dot: "self.x * rhs.x + self.y * rhs.y + self.z * rhs.z"
FDot(a, b) ==
    FAdd(FAdd(FMul(a[1], b[1]), FMul(a[2], b[2])), FMul(a[3], b[3]))

\* Vector3f::cross
FCross(a, b) ==
    << FSub(FMul(a[2], b[3]), FMul(a[3], b[2])),
       FSub(FMul(a[3], b[1]), FMul(a[1], b[3])),
       FSub(FMul(a[1], b[2]), FMul(a[2], b[1])) >>

\* Mul<f32> for Vector3f
FScale(a, k) == <<FMul(a[1], k), FMul(a[2], k), FMul(a[3], k)>>

\* Vector3f::normalize: "if mag2 > EPSILON { self * (1.0 / sqrt(mag2)) }
\* else { self.clone() }"
FNormalize(a) ==
    IF FLess(FEpsilon, FDot(a, a))
    THEN FScale(a, FRecip(FSqrt(FDot(a, a))))
    ELSE a

\* Triangle::new in floating point: the edges and the normal
FTriangleNew(v0, v1, v2) ==
    [v0 |-> v0, e1 |-> FVSub(v1, v0), e2 |-> FVSub(v2, v0),
     normal |-> FNormalize(FCross(FVSub(v1, v0), FVSub(v2, v0)))]

\* the Intersection of a hit at distance t, with Arc::clone(&self.material)
\* and the triangle itself as obj
FHit(t) == [hit |-> TRUE, distance |-> t, obj |-> <<"T", 0>>, material |-> 1]

\* Triangle::intersect from "let t = self.e2.dot(&qvec) * det_inv"
FIntersectT(t) == IF FLess(F(0), t) THEN FHit(t) ELSE NewIntersection

\* Triangle::intersect from "let v = ray.direction.dot(&qvec) * det_inv"
FIntersectV(tri, ray, det_inv, u, qvec, v) ==
    IF FLess(v, F(0)) \/ FLess(F(1), FAdd(u, v)) THEN NewIntersection
    ELSE FIntersectT(FMul(FDot(tri.e2, qvec), det_inv))

\* Triangle::intersect from "let u = tvec.dot(&pvec) * det_inv"
FIntersectU(tri, ray, det_inv, tvec, u) ==
    IF FLess(u, F(0)) \/ FLess(F(1), u) THEN NewIntersection
    ELSE FIntersectV(tri, ray, det_inv, u, FCross(tvec, tri.e1),
                     FMul(FDot(ray.direction, FCross(tvec, tri.e1)), det_inv))

\* Triangle::intersect from "let det = self.e1.dot(&pvec)"
FIntersectDet(tri, ray, pvec, det) ==
    IF FLess(det, FEpsilon) /\ FLess(FNeg(det), FEpsilon) THEN NewIntersection
    ELSE FIntersectU(tri, ray, FRecip(det), FVSub(ray.origin, tri.v0),
                     FMul(FDot(FVSub(ray.origin, tri.v0), pvec), FRecip(det)))

\* Triangle::intersect in floating point
FTriangleIntersect(tri, ray) ==
    IF FLess(F(0), FDot(ray.direction, tri.normal)) THEN NewIntersection
    ELSE FIntersectDet(tri, ray, FCross(ray.direction, tri.e2),
                       FDot(tri.e1, FCross(ray.direction, tri.e2)))


-----------------------------------------------------------------------------
(* mesh/triangle.rs in floating point, as a state machine: Triangle::new,   *)
(* then any number of Triangle::intersect calls.                            *)

\* The triangles made: one with collinear vertices, one with v1 = v2, one
\* with three equal vertices, and triangle 1 of the meshes
TestTriangles ==
    { << <<2, 9, 2>>,   <<9, 3, 1>>,   <<16, -3, 0>> >>,
      << <<3, -3, -5>>, <<-3, 4, -2>>, <<-3, 4, -2>> >>,
      << <<2, 9, 2>>,   <<2, 9, 2>>,   <<2, 9, 2>> >>,
      << <<0, 0, 4>>,   <<0, 4, 4>>,   <<4, 0, 4>> >> }

\* the rays handed to Triangle::intersect
TestOrigins == {<<4, 2, -6>>, <<-6, 10, 8>>, <<1, 1, 0>>}

TestDirections ==
    {<<-6, 21, 24>>, <<36, -15, 18>>, <<-9, 3, -21>>, <<-7, 3, -14>>,
     <<0, 0, 4>>, <<0, 0, -4>>, <<3, 1, 10>>, <<-2, 7, 8>>, <<1, 0, 0>>}

TestRays == {Ray(o, d) : o \in TestOrigins, d \in TestDirections}

\* Triangle::new(v0, v1, v2) for the vertices vs
FTriangle(vs) == FTriangleNew(FVec(vs[1]), FVec(vs[2]), FVec(vs[3]))

\* Triangle::intersect of every triangle made with every ray
FloatIntersect ==
    [vs \in TestTriangles |->
        [ray \in TestRays |->
            FTriangleIntersect(FTriangle(vs),
                               Ray(FVec(ray.origin), FVec(ray.direction)))]]

\* a call of a method of the triangle self, with its argument
NumCalled(op, self, ray) == [op |-> op, self |-> self, ray |-> ray]

InitTriangle ==
    /\ BVHAtRest
    /\ SceneAtRest
    /\ RenderAtRest
    /\ BoxAtRest
    /\ SdfAtRest
    /\ NumAtRest

\* Triangle::new
TriangleNewCall ==
    \E vs \in TestTriangles :
        /\ numCall = NoNumCall
        /\ numCall' = NumCalled("new", vs, NoRay)
        /\ numResult' = NoSample
        /\ UNCHANGED notNum

\* Triangle::intersect(ray)
TriangleIntersectCall ==
    \E ray \in TestRays :
        /\ numCall # NoNumCall
        /\ numCall' = NumCalled("intersect", numCall.self, ray)
        /\ numResult' = FloatIntersect[numCall.self][ray]
        /\ UNCHANGED notNum

NextTriangle == TriangleNewCall \/ TriangleIntersectCall

SpecTriangle == InitTriangle /\ [][NextTriangle]_vars

\* the vertices are collinear or coincide: the edges span no area
Degenerate(vs) == Cross(VSub(vs[2], vs[1]), VSub(vs[3], vs[1])) = VZero

\* C22: Triangle::intersect of a degenerate triangle returns a miss for
\* every ray, and the miss is the record of Intersection::new(): hit false,
\* the maximum distance, no object and no material.
C22_DegenerateMisses ==
    (numCall.op = "intersect" /\ Degenerate(numCall.self)) =>
        numResult = NewIntersection

-----------------------------------------------------------------------------
(* The arena of the ray marchers' scene.                                     *)

\* C23: the arena Scene.nodes is append-only with stable indices.  Every step
\* keeps every node there is, with its shape, op, material and next; a step
\* that changes the arena, as add_leaf_node and add_node do, appends exactly
\* one node, whose index in src/ray_marching_wgpu is the length before; so
\* nodes[i].index = i for every i (positions of the model count from one);
\* add_root_node and set_ground leave the arena alone.
C23_ArenaAppendOnly ==
    [][ /\ Len(sdfNodes') >= Len(sdfNodes)
        /\ \A i \in 1..Len(sdfNodes) : sdfNodes'[i] = sdfNodes[i]
        /\ (AddLeafNode \/ AddNode) => Len(sdfNodes') = Len(sdfNodes) + 1
        /\ (AddRootNode \/ SetGround) => sdfNodes' = sdfNodes
        /\ Len(sdfNodes') # Len(sdfNodes) =>
               /\ Len(sdfNodes') = Len(sdfNodes) + 1
               /\ evaluator = "ray_marching_wgpu" =>
                      sdfNodes'[Len(sdfNodes')].index = Len(sdfNodes)
        /\ evaluator = "ray_marching_wgpu" =>
               \A i \in 1..Len(sdfNodes') : sdfNodes'[i].index = i - 1
      ]_vars

\* a chain of two nodes in the arena of src/ray_marching_wgpu, its head a
\* root, and the ground set
C23_Witness ==
    /\ evaluator = "ray_marching_wgpu"
    /\ Len(sdfNodes) = 2
    /\ sdfNodes[2].next = 1
    /\ sdfRoots = <<2>>
    /\ sdfGround = 2

RECURSIVE Visited(_, _)
\* the nodes "while let Some(op) = next" of shape_sdf comes to from the node
\* cur on, in at most steps passes
Visited(cur, steps) ==
    IF cur = 0 \/ steps = 0 THEN <<>>
    ELSE <<cur>> \o Visited(sdfNodes[cur].next, steps - 1)

-----------------------------------------------------------------------------
(* The shape of the hierarchy BVH::build makes.                              *)

\* the position of an element in a list without repetition
PositionIn(list, x) == CHOOSE k \in 1..Len(list) : list[k] = x

\* sorted holds the elements of prims in the order of their centers along the
\* axis, those of equal center in the order of prims
StablySorted(sorted, prims, axis) ==
    /\ Len(sorted) = Len(prims)
    /\ \A k \in 1..Len(prims) : \E r \in 1..Len(sorted) : sorted[r] = prims[k]
    /\ \A r1, r2 \in 1..Len(sorted) :
          r1 < r2 =>
             \/ SortKey(sorted[r1], axis) < SortKey(sorted[r2], axis)
             \/ /\ SortKey(sorted[r1], axis) = SortKey(sorted[r2], axis)
                /\ PositionIn(prims, sorted[r1]) < PositionIn(prims, sorted[r2])

\* a node that holds one primitive and has no children
IsLeafOf(node, obj) ==
    /\ ~IsNone(node)
    /\ node.object = obj
    /\ IsNone(node.left)
    /\ IsNone(node.right)

\* a node that holds no primitive and has two children
IsInterior(node) ==
    /\ ~IsNone(node)
    /\ node.object = NoObj
    /\ ~IsNone(node.left)
    /\ ~IsNone(node.right)

RECURSIVE BuiltOver(_, _)
\* node is the subtree over the list prims: a leaf for one primitive, two
\* leaves in the order of the list for two, and for more the subtrees over
\* the first half, rounded down, and over the rest of the list sorted stably
\* along the axis of the greatest extent of its bounds
BuiltOver(node, prims) ==
    IF Len(prims) = 1 THEN IsLeafOf(node, prims[1])
    ELSE IF Len(prims) = 2
    THEN /\ IsInterior(node)
         /\ IsLeafOf(node.left, prims[1])
         /\ IsLeafOf(node.right, prims[2])
    ELSE /\ IsInterior(node)
         /\ \E sorted \in InjSeqs({prims[k] : k \in 1..Len(prims)}, Len(prims)) :
               /\ StablySorted(sorted, prims,
                               MaxExtentAxis(UnionAll(BoundsZero, prims)))
               /\ BuiltOver(node.left, SubSeq(sorted, 1, Len(prims) \div 2))
               /\ BuiltOver(node.right,
                            SubSeq(sorted, Len(prims) \div 2 + 1, Len(prims)))

\* C24: BVH::build partitions its input.  A subtree over one primitive is a
\* leaf holding it; over two, two leaves in input order; over n >= 3, the
\* primitives are sorted stably by center along the chosen axis and the left
\* child is built over the first n / 2 (rounded down), the right child over
\* the rest.  Every primitive is in exactly one leaf and every node has two
\* children or one primitive.
C24_BuildPartitions ==
    ~IsNone(root) =>
        /\ BuiltOver(root, primitives)
        /\ Len(LeafObjects(root)) = Len(primitives)
        /\ \A k \in 1..Len(primitives) :
              Cardinality({r \in 1..Len(primitives) :
                              LeafObjects(root)[r] = primitives[k]}) = 1
        /\ \A node \in Nodes(root) :
              \/ IsInterior(node)
              \/ IsLeafOf(node, node.object) /\ node.object # NoObj

\* a hierarchy built over three primitives, two of them next to each other
\* in the input with the same center along the axis of the sort, whose leaves
\* are not in the order of the input
C24_Witness ==
    /\ ~IsNone(root)
    /\ Len(primitives) = 3
    /\ \E k \in 1..2 :
          SortKey(primitives[k], MaxExtentAxis(UnionAll(BoundsZero, primitives)))
              = SortKey(primitives[k + 1],
                        MaxExtentAxis(UnionAll(BoundsZero, primitives)))
    /\ LeafObjects(root) # primitives

-----------------------------------------------------------------------------
(* The calls of Scene::shade.                                                *)

\* C25: Scene::shade of a hit that emits returns at once, with no light
\* sampled and no nested call, and a call of shade nested in another is
\* entered only with a hit, on a surface that does not emit.
C25_EmissionReturnsAtOnce ==
    [][ /\ (pc = "shade" /\ HasEmission(hit.material)) =>
               /\ pc' = "returned"
               /\ light' = light
               /\ hit' = hit
               /\ depth' = depth
        /\ (pc = "shade" /\ pc' = "shade") =>
               /\ ~HasEmission(hit.material)
               /\ hit'.hit
               /\ ~HasEmission(hit'.material)
               /\ depth' = Deeper(depth)
      ]_vars

\* a call of shade nested in a nested call, in a scene with a light the
\* indirect rays can hit
C25_Witness ==
    /\ pc = "shade"
    /\ depth = 2
    /\ ~HasEmission(hit.material)
    /\ \E inter \in IndirectHits(sceneBvh) :
          inter.hit /\ HasEmission(inter.material)

-----------------------------------------------------------------------------
(* ShapeOp::op_sdf of src/ray_marching_wgpu for SmoothUnion, computed in     *)
(* floating point as the program computes it.                                *)

\* a / b, for b other than zero: the quotient with MantissaBits + 3 more bits
\* and one that is set when the division leaves a remainder
FDiv(a, b) ==
    IF a[1] = 0 THEN <<0, 0>>
    ELSE LET q == (Abs(a[1]) * Pow2[MantissaBits + 3]) \div Abs(b[1])
             rest == (Abs(a[1]) * Pow2[MantissaBits + 3]) % Abs(b[1])
             bits == 2 * q + (IF rest = 0 THEN 0 ELSE 1)
         IN  FRound(IF (a[1] < 0) = (b[1] < 0) THEN bits ELSE -bits,
                    a[2] - b[2] - (MantissaBits + 4))

\* the literal 0.5
FHalf == FRound(1, 0 - 1)

\* f64::clamp(x, min, max)
FClamp(x, min, max) ==
    IF FLess(x, min) THEN min
    ELSE IF FLess(max, x) THEN max
    ELSE x

\* lerp with its weights the other way round
FLerpSwapped(x, y, a) ==
    FAdd(FMul(x, a), FMul(y, FSub(F(1), a)))

\* lerp: "x * (1.0 - a) + y * a"
FLerp(x, y, a) ==
    FAdd(FMul(x, FSub(F(1), a)), FMul(y, a))

\* the h of SmoothUnion:
\* "f64::clamp(0.5 + 0.5 * (sdf_b - sdf_a) / k, 0.0, 1.0)"
SmoothH(sdf_a, sdf_b, k) ==
    FClamp(FAdd(FHalf, FDiv(FMul(FHalf, FSub(sdf_b, sdf_a)), k)), F(0), F(1))

\* op_sdf(sdf_a, SmoothUnion, sdf_b):
\* "let k = 1.0; .. lerp(sdf_b, sdf_a, h) - k * h * (1.0 - h)"
SmoothUnion(sdf_a, sdf_b) ==
    FSub(FLerp(sdf_b, sdf_a, SmoothH(sdf_a, sdf_b, F(1))),
         FMul(FMul(F(1), SmoothH(sdf_a, sdf_b, F(1))),
              FSub(F(1), SmoothH(sdf_a, sdf_b, F(1)))))

\* the distances are multiples of 2^-GridBits
GridBits == 5

\* the distances op_sdf is called with, in units of 2^-GridBits: between -5
\* and -3.5, and between 0 and 1.5
SmoothInts == ((0 - 160)..(0 - 112)) \cup (0..48)

SmoothInputs == {FRound(n, 0 - GridBits) : n \in SmoothInts}

\* a call of op_sdf with SmoothUnion
OpSdfCalled(sdf_a, sdf_b) == [op |-> "op_sdf", sdf_a |-> sdf_a, sdf_b |-> sdf_b]

InitSmooth ==
    /\ BVHAtRest
    /\ SceneAtRest
    /\ RenderAtRest
    /\ BoxAtRest
    /\ SdfAtRest
    /\ NumAtRest

\* op_sdf(sdf_a, &ShapeOpType::SmoothUnion, sdf_b); the function has no
\* state, so a behaviour makes one call
OpSdfCall ==
    \E sdf_a \in SmoothInputs, sdf_b \in SmoothInputs :
        /\ numCall = NoNumCall
        /\ numCall' = OpSdfCalled(sdf_a, sdf_b)
        /\ numResult' = SmoothUnion(sdf_a, sdf_b)
        /\ UNCHANGED notNum

NextSmooth == OpSdfCall

SpecSmooth == InitSmooth /\ [][NextSmooth]_vars

\* the binary places the claims about op_sdf are evaluated with
ScaleBits == 24

\* a number of the format in units of 2^-ScaleBits, exactly
Scaled(x) == x[1] * Pow2[x[2] + ScaleBits]

\* min(a, b) in those units
ScaledMin(sdf_a, sdf_b) ==
    IF Scaled(sdf_a) < Scaled(sdf_b) THEN Scaled(sdf_a) ELSE Scaled(sdf_b)

\* the two distances are a unit or more apart
Apart(sdf_a, sdf_b) == Abs(Scaled(sdf_a) - Scaled(sdf_b)) >= Pow2[ScaleBits]

\* min(a, b) - (1 - |a - b|)^2 / 4 in those units, for distances on the grid
\* less than a unit apart: what the formula of SmoothUnion comes to without
\* rounding
SmoothExact(sdf_a, sdf_b) ==
    ScaledMin(sdf_a, sdf_b)
        - ((Pow2[GridBits]
              - Abs(Scaled(sdf_a) - Scaled(sdf_b)) \div Pow2[ScaleBits - GridBits])
           * (Pow2[GridBits]
              - Abs(Scaled(sdf_a) - Scaled(sdf_b)) \div Pow2[ScaleBits - GridBits]))
          * Pow2[ScaleBits - 2 * GridBits - 2]

\* the rounding errors of one evaluation: eight units roundoff of
\* |a| + |b| + 1
RoundingBound(sdf_a, sdf_b) ==
    (Abs(Scaled(sdf_a)) + Abs(Scaled(sdf_b)) + Pow2[ScaleBits])
        \div Pow2[MantissaBits - 3]

\* the result r of op_sdf(sdf_a, SmoothUnion, sdf_b) is what the formula
\* comes to, up to rounding
NearExact(r, sdf_a, sdf_b) ==
    Abs(Scaled(r) - SmoothExact(sdf_a, sdf_b)) <= RoundingBound(sdf_a, sdf_b)

\* C26 as stated: SmoothUnion never exceeds the hard union and is symmetric.
\* op_sdf(a, SmoothUnion, b) <= min(a, b); it is min(a, b) whenever
\* |a - b| >= 1 and less than min(a, b) when |a - b| < 1; and
\* op_sdf(a, SmoothUnion, b) = op_sdf(b, SmoothUnion, a).
C26_SmoothBelowUnion ==
    numCall.op = "op_sdf" =>
        /\ Scaled(numResult) <= ScaledMin(numCall.sdf_a, numCall.sdf_b)
        /\ Apart(numCall.sdf_a, numCall.sdf_b) =>
               Scaled(numResult) = ScaledMin(numCall.sdf_a, numCall.sdf_b)
        /\ ~Apart(numCall.sdf_a, numCall.sdf_b) =>
               Scaled(numResult) < ScaledMin(numCall.sdf_a, numCall.sdf_b)
        /\ numResult = SmoothUnion(numCall.sdf_b, numCall.sdf_a)

\* C26 amended: op_sdf(a, SmoothUnion, b) is min(a, b) whenever
\* |a - b| >= 1, in either order of a and b; when |a - b| < 1 it is
\* min(a, b) - (1 - |a - b|)^2 / 4 up to the rounding of the evaluation, in
\* either order of a and b.
C26_SmoothUnionUpToRounding ==
    numCall.op = "op_sdf" =>
        /\ Apart(numCall.sdf_a, numCall.sdf_b) =>
               /\ Scaled(numResult) = ScaledMin(numCall.sdf_a, numCall.sdf_b)
               /\ numResult = SmoothUnion(numCall.sdf_b, numCall.sdf_a)
        /\ ~Apart(numCall.sdf_a, numCall.sdf_b) =>
               /\ NearExact(numResult, numCall.sdf_a, numCall.sdf_b)
               /\ NearExact(SmoothUnion(numCall.sdf_b, numCall.sdf_a),
                            numCall.sdf_a, numCall.sdf_b)

\* a call with distances less than a unit apart whose result is not min(a, b)
\* and not less than the formula without rounding
C26_Witness ==
    /\ numCall.op = "op_sdf"
    /\ ~Apart(numCall.sdf_a, numCall.sdf_b)
    /\ numCall.sdf_a # numCall.sdf_b
    /\ Scaled(numResult) # ScaledMin(numCall.sdf_a, numCall.sdf_b)
    /\ Scaled(numResult) >= SmoothExact(numCall.sdf_a, numCall.sdf_b)

-----------------------------------------------------------------------------
(* The end of BVH::build.                                                    *)

\* C27: BVH::build ends for every list of primitives, the empty list too:
\* once Scene::build_bvh has been called, the call has not died in
\* build_recursively, and build_recursively called itself only with lists
\* shorter than its own.
C27_BuildEnds ==
    (pc = "aborted" \/ ~IsNone(sceneBvh)) =>
        /\ pc # "aborted"
        /\ \A callee \in Callees(SceneObjects(models)) :
              Len(callee) < Len(models)

-----------------------------------------------------------------------------
(* The worker count of Renderer::render.                                     *)

\* C28: render(scene, n_threads) of the path tracer on a built scene with a
\* framebuffer does not panic for any positive n_threads, those greater
\* than the height of the image and those that do not divide it too.
C28_PositiveThreadsOk ==
    (program = "path_tracing" /\ ~IsNone(sceneBvh) /\ nThreads > 0) =>
        renderPc # "panicked"

-----------------------------------------------------------------------------
(* The densities Scene::shade divides by.                                    *)

\* C29: Scene::shade never divides by a pdf of zero.  Whenever the indirect
\* term is computed, Material::pdf of the direction Material::sample has
\* returned is greater than zero, for a direction in the tangent plane too;
\* whenever the direct term is computed, the pdf sample_light has returned
\* is greater than zero.
C29_PdfsArePositive ==
    /\ indirectPdf # NoPdf => RatLess(<<0, 1>>, indirectPdf)
    /\ light # NoSample => RatLess(<<0, 1>>, light.pdf)

=============================================================================
